---- MODULE Spec2Model ----
(***************************************************************************)
(* Verification model of the TableFormer / layout-model tooling:           *)
(*   - pipeline_utils.box_iou                                              *)
(*   - compare_kpi.compare_variant / main                                  *)
(*   - scripts/validate_quality.main (acceptance gate)                     *)
(*   - scripts/download_release_assets.main                                *)
(*   - scripts/export_tableformer_post_processing (cell refinement)        *)
(*   - tableformer_docling.predictor.TableFormerDocling                    *)
(*                                                                         *)
(* Python floats are modelled exactly: a quotient is a reduced fraction    *)
(* <<num, den>>, and bbox coordinates of the post-processing stage are     *)
(* fixed-point integers on a grid on which every halving the code performs *)
(* is exact.                                                               *)
(***************************************************************************)
EXTENDS Integers, Sequences, FiniteSets, TLC

VARIABLES
    \* pipeline_utils.box_iou and its caller
    box1, box2, iou12, iou21, iou_pc,
    \* compare_kpi.main
    baseline_preds, variants, kpi_metrics, kpi_pc,
    \* scripts/validate_quality.main: the values the acceptance check reads
    iou50_int8, mean_iou_int8, dbox_int8, mean_int8, p95_int8,
    mean_opt, p95_opt, size_int8, gate_pc,
    \* scripts/download_release_assets.main
    args_token, args_skip_existing, environ, release, disk_before,
    token, assets, next_asset, disk, outcomes, api_requests, dl_exit, dl_pc,
    \* tableformer_docling.predictor.TableFormerDocling: one instance, the
    \* artifacts directory, and what the instance has done so far
    _predictor, _config, model_dir_exists, config_exists,
    downloads, constructions, load_failures, uses, first_use_dir,
    predictors_used, configs_returned, last_call, tf_calls,
    \* scripts/export_tableformer_post_processing: one sample
    details, processed, doc_output, pp_pc,
    \* _deduplicate_columns called on its own
    tab_columns, dedup_cells_in, dedup_matches_in, dedup_out, dedup_pc,
    \* _find_alignment_in_column called on its own
    column_cells, alignment, align_pc,
    \* convert_to_onnx.convert: where it stands and what it has attempted,
    \* printed and written
    cv_pc, cv_attempts, cv_log, cv_files,
    \* scripts/benchmark_docling_python.main: the dataset, the reference file,
    \* the flag, and what main has computed and written
    bd_images, bd_reference, bd_skip_reference_check, bd_predictions,
    bd_reference_data, bd_report, bd_exit, bd_pc,
    \* the producers of timings.csv and compare_kpi.load_timings: the run, the
    \* timings recorded, the file, the count reported and the values read back
    tm_producer, tm_images, tm_runs_per_image, tm_synthetic, timings,
    tm_csv, tm_count, tm_loaded, tm_pc,
    \* the canonical-JSON hashing of two payloads: the routine, the payloads,
    \* how the second was built from the first, and the text and digest of each
    cj_routine, cj_first, cj_second, cj_built, cj_hashes, cj_pc,
    \* _resize_rgb_bilinear: the exporter, the image, the target size, the
    \* neighbour indices read and the result
    rs_exporter, rs_image, rs_target_width, rs_target_height, rs_read,
    rs_resized, rs_pc,
    \* validate_quality.match_iou: the two prediction lists, the samples
    \* returned and the pairs they come from
    mi_base, mi_var, mi_ious, mi_pairs, mi_pc,
    \* the crop of one table: the page size, the bbox and scale factor, the
    \* exporter, the clamped rectangle and the crop or the error
    cr_width, cr_height, cr_bbox, cr_scale_factor, cr_exporter,
    cr_rounded_bbox, cr_crop, cr_pc,
    \* the export stages: the reference files of the results directory, the
    \* PNGs of the dataset, the last stage run, and whether each output was
    \* written with its upstream files in place
    st_results, st_pngs, st_last, st_seen,
    \* validate_quality.quality_metrics: the baseline and variant folders, the
    \* samples and the metrics returned
    qm_base, qm_var, qm_ious_all, qm_metrics, qm_pc,
    \* export_post_processing: the sample, the input details built from it,
    \* the result and the writes of process_matching_details, the input
    \* details after the call and the input hashes exported
    fr_sample, fr_input, fr_processed, fr_writes, fr_after, fr_hashes,
    fr_pc

iou_vars == <<box1, box2, iou12, iou21, iou_pc>>
kpi_vars == <<baseline_preds, variants, kpi_metrics, kpi_pc>>

gate_vars == <<iou50_int8, mean_iou_int8, dbox_int8, mean_int8, p95_int8,
               mean_opt, p95_opt, size_int8, gate_pc>>

dl_vars == <<args_token, args_skip_existing, environ, release, disk_before,
             token, assets, next_asset, disk, outcomes, api_requests, dl_exit, dl_pc>>

tf_vars == <<_predictor, _config, model_dir_exists, config_exists,
             downloads, constructions, load_failures, uses, first_use_dir,
             predictors_used, configs_returned, last_call, tf_calls>>

pp_vars == <<details, processed, doc_output, pp_pc>>
dedup_vars == <<tab_columns, dedup_cells_in, dedup_matches_in, dedup_out, dedup_pc>>
align_vars == <<column_cells, alignment, align_pc>>

cv_vars == <<cv_pc, cv_attempts, cv_log, cv_files>>

bd_vars == <<bd_images, bd_reference, bd_skip_reference_check, bd_predictions,
             bd_reference_data, bd_report, bd_exit, bd_pc>>

tm_vars == <<tm_producer, tm_images, tm_runs_per_image, tm_synthetic, timings,
             tm_csv, tm_count, tm_loaded, tm_pc>>

cj_vars == <<cj_routine, cj_first, cj_second, cj_built, cj_hashes, cj_pc>>

rs_vars == <<rs_exporter, rs_image, rs_target_width, rs_target_height,
             rs_read, rs_resized, rs_pc>>

mi_vars == <<mi_base, mi_var, mi_ious, mi_pairs, mi_pc>>

cr_vars == <<cr_width, cr_height, cr_bbox, cr_scale_factor, cr_exporter,
             cr_rounded_bbox, cr_crop, cr_pc>>

st_vars == <<st_results, st_pngs, st_last, st_seen>>

qm_vars == <<qm_base, qm_var, qm_ious_all, qm_metrics, qm_pc>>

fr_vars == <<fr_sample, fr_input, fr_processed, fr_writes, fr_after,
             fr_hashes, fr_pc>>

\* what the actions of one component leave alone
not_iou == <<kpi_vars, gate_vars, dl_vars, tf_vars, pp_vars, dedup_vars,
             align_vars, cv_vars, bd_vars, tm_vars, cj_vars, rs_vars, mi_vars,
             cr_vars, st_vars, qm_vars, fr_vars>>
not_kpi == <<iou_vars, gate_vars, dl_vars, tf_vars, pp_vars, dedup_vars,
             align_vars, cv_vars, bd_vars, tm_vars, cj_vars, rs_vars, mi_vars,
             cr_vars, st_vars, qm_vars, fr_vars>>
not_gate == <<iou_vars, kpi_vars, dl_vars, tf_vars, pp_vars, dedup_vars,
              align_vars, cv_vars, bd_vars, tm_vars, cj_vars, rs_vars,
              mi_vars, cr_vars, st_vars, qm_vars, fr_vars>>
not_dl == <<iou_vars, kpi_vars, gate_vars, tf_vars, pp_vars, dedup_vars,
            align_vars, cv_vars, bd_vars, tm_vars, cj_vars, rs_vars, mi_vars,
            cr_vars, st_vars, qm_vars, fr_vars>>
not_tf == <<iou_vars, kpi_vars, gate_vars, dl_vars, pp_vars, dedup_vars,
            align_vars, cv_vars, bd_vars, tm_vars, cj_vars, rs_vars, mi_vars,
            cr_vars, st_vars, qm_vars, fr_vars>>
not_pp == <<iou_vars, kpi_vars, gate_vars, dl_vars, tf_vars, dedup_vars,
            align_vars, cv_vars, bd_vars, tm_vars, cj_vars, rs_vars, mi_vars,
            cr_vars, st_vars, qm_vars, fr_vars>>
not_dedup == <<iou_vars, kpi_vars, gate_vars, dl_vars, tf_vars, pp_vars,
               align_vars, cv_vars, bd_vars, tm_vars, cj_vars, rs_vars,
               mi_vars, cr_vars, st_vars, qm_vars, fr_vars>>
not_align == <<iou_vars, kpi_vars, gate_vars, dl_vars, tf_vars, pp_vars,
               dedup_vars, cv_vars, bd_vars, tm_vars, cj_vars, rs_vars,
               mi_vars, cr_vars, st_vars, qm_vars, fr_vars>>
not_cv == <<iou_vars, kpi_vars, gate_vars, dl_vars, tf_vars, pp_vars,
            dedup_vars, align_vars, bd_vars, tm_vars, cj_vars, rs_vars,
            mi_vars, cr_vars, st_vars, qm_vars, fr_vars>>
not_bd == <<iou_vars, kpi_vars, gate_vars, dl_vars, tf_vars, pp_vars,
            dedup_vars, align_vars, cv_vars, tm_vars, cj_vars, rs_vars,
            mi_vars, cr_vars, st_vars, qm_vars, fr_vars>>
not_tm == <<iou_vars, kpi_vars, gate_vars, dl_vars, tf_vars, pp_vars,
            dedup_vars, align_vars, cv_vars, bd_vars, cj_vars, rs_vars,
            mi_vars, cr_vars, st_vars, qm_vars, fr_vars>>
not_cj == <<iou_vars, kpi_vars, gate_vars, dl_vars, tf_vars, pp_vars,
            dedup_vars, align_vars, cv_vars, bd_vars, tm_vars, rs_vars,
            mi_vars, cr_vars, st_vars, qm_vars, fr_vars>>
not_rs == <<iou_vars, kpi_vars, gate_vars, dl_vars, tf_vars, pp_vars,
            dedup_vars, align_vars, cv_vars, bd_vars, tm_vars, cj_vars,
            mi_vars, cr_vars, st_vars, qm_vars, fr_vars>>
not_mi == <<iou_vars, kpi_vars, gate_vars, dl_vars, tf_vars, pp_vars,
            dedup_vars, align_vars, cv_vars, bd_vars, tm_vars, cj_vars,
            rs_vars, cr_vars, st_vars, qm_vars, fr_vars>>
not_cr == <<iou_vars, kpi_vars, gate_vars, dl_vars, tf_vars, pp_vars,
            dedup_vars, align_vars, cv_vars, bd_vars, tm_vars, cj_vars,
            rs_vars, mi_vars, st_vars, qm_vars, fr_vars>>
not_st == <<iou_vars, kpi_vars, gate_vars, dl_vars, tf_vars, pp_vars,
            dedup_vars, align_vars, cv_vars, bd_vars, tm_vars, cj_vars,
            rs_vars, mi_vars, cr_vars, qm_vars, fr_vars>>
not_qm == <<iou_vars, kpi_vars, gate_vars, dl_vars, tf_vars, pp_vars,
            dedup_vars, align_vars, cv_vars, bd_vars, tm_vars, cj_vars,
            rs_vars, mi_vars, cr_vars, st_vars, fr_vars>>
not_fr == <<iou_vars, kpi_vars, gate_vars, dl_vars, tf_vars, pp_vars,
            dedup_vars, align_vars, cv_vars, bd_vars, tm_vars, cj_vars,
            rs_vars, mi_vars, cr_vars, st_vars, qm_vars>>

vars == <<iou_vars, kpi_vars, gate_vars, dl_vars, tf_vars, pp_vars,
          dedup_vars, align_vars, cv_vars, bd_vars, tm_vars, cj_vars, rs_vars,
          mi_vars, cr_vars, st_vars, qm_vars, fr_vars>>

None == "None"

(***************************************************************************)
(* Exact arithmetic standing for Python's float arithmetic.                *)
(***************************************************************************)
Max2(a, b) == IF a >= b THEN a ELSE b
Min2(a, b) == IF a <= b THEN a ELSE b
Abs(a) == IF a < 0 THEN -a ELSE a

RECURSIVE GCD(_, _)
GCD(a, b) == IF b = 0 THEN a ELSE GCD(b, a % b)

\* the quotient n / d (d > 0) as a reduced fraction
Rat(n, d) ==
    LET g == GCD(Abs(n), d)
    IN  <<n \div g, d \div g>>

RatAdd(p, q) == Rat(p[1] * q[2] + q[1] * p[2], p[2] * q[2])
RatLess(p, q) == p[1] * q[2] < q[1] * p[2]
RatGeq(p, q) == p[1] * q[2] >= q[1] * p[2]

RECURSIVE RatSum(_)
RatSum(s) == IF s = <<>> THEN <<0, 1>> ELSE RatAdd(s[1], RatSum(Tail(s)))

(***************************************************************************)
(* pipeline_utils.box_iou                                                  *)
(***************************************************************************)
MaxCoord == 2

Coords == 0..MaxCoord

\* every [x0, y0, x1, y1] on the grid, inverted and empty boxes included
Boxes == {<<x0, y0, x1, y1>> : x0 \in Coords, y0 \in Coords,
                               x1 \in Coords, y1 \in Coords}

box_iou_asym(b1, b2) ==
    LET inter_w == Max2(0, Min2(b1[3], b2[3]) - Max2(b1[1], b2[1]))
        inter_h == Max2(0, Min2(b1[4], b2[4]) - Max2(b1[2], b2[2]))
        inter_area == inter_w * inter_h
        area_a == Max2(0, b1[3] - b1[1]) * Max2(0, b1[4] - b1[2])
        union == area_a
    IN  IF union > 0 THEN Rat(inter_area, union) ELSE <<0, 1>>

box_iou(b1, b2) ==
    LET inter_x0 == Max2(b1[1], b2[1])
        inter_y0 == Max2(b1[2], b2[2])
        inter_x1 == Min2(b1[3], b2[3])
        inter_y1 == Min2(b1[4], b2[4])
        inter_w == Max2(0, inter_x1 - inter_x0)
        inter_h == Max2(0, inter_y1 - inter_y0)
        inter_area == inter_w * inter_h
        area_a == Max2(0, b1[3] - b1[1]) * Max2(0, b1[4] - b1[2])
        area_b == Max2(0, b2[3] - b2[1]) * Max2(0, b2[4] - b2[2])
        union == area_a + area_b - inter_area
    IN  IF union > 0 THEN Rat(inter_area, union) ELSE <<0, 1>>

IouIdle ==
    /\ box1 = None
    /\ box2 = None
    /\ iou12 = None
    /\ iou21 = None
    /\ iou_pc = "idle"

IouStart ==
    /\ box1 \in Boxes
    /\ box2 \in Boxes
    /\ iou12 = None
    /\ iou21 = None
    /\ iou_pc = "start"

\* a caller evaluating the metric on a pair of boxes in both orders
ComputeIou ==
    /\ iou_pc = "start"
    /\ iou12' = box_iou(box1, box2)
    /\ iou21' = box_iou(box2, box1)
    /\ iou_pc' = "done"
    /\ UNCHANGED <<box1, box2>>
    /\ UNCHANGED not_iou

IouNext == ComputeIou

\* C8: box_iou is symmetric, is 1 on a box of positive area compared with
\* itself, is 0 when the two extents share no area and when the union is
\* empty, and always lies in [0, 1], also for boxes with x1 < x0 or y1 < y0.
\* The extent of a box is the set of unit squares it covers.
UnitSquares(b) == {<<x, y>> \in Coords \X Coords :
                      b[1] <= x /\ x < b[3] /\ b[2] <= y /\ y < b[4]}

C8_IouProperties ==
    iou_pc = "done" =>
        /\ iou12 = iou21
        /\ (box1 = box2 /\ UnitSquares(box1) # {} => iou12 = <<1, 1>>)
        /\ (UnitSquares(box1) \cap UnitSquares(box2) = {} => iou12 = <<0, 1>>)
        /\ (UnitSquares(box1) \cup UnitSquares(box2) = {} => iou12 = <<0, 1>>)
        /\ 0 <= iou12[1] /\ iou12[1] <= iou12[2]

\* two different boxes that overlap in part: 0 < iou < 1
C8_Witness ==
    /\ iou_pc = "done"
    /\ box1 # box2
    /\ 0 < iou12[1] /\ iou12[1] < iou12[2]
    /\ iou21 = iou12

\* an inverted box (x1 < x0) against a proper box
C8_WitnessInverted ==
    /\ iou_pc = "done"
    /\ box1[3] < box1[1]
    /\ UnitSquares(box2) # {}
    /\ iou12 = <<0, 1>>

(***************************************************************************)
(* compare_kpi                                                             *)
(***************************************************************************)
MaxImages == 1
MaxPreds == 2

KpiImages == 1..MaxImages

\* predictions as stored in a predictions/<stem>.json file; the third box
\* has no area; scores are fixed-point hundredths
KpiPredictions ==
    { [bbox |-> <<0, 0, 2, 2>>, label |-> "table", score |-> 90],
      [bbox |-> <<1, 1, 2, 2>>, label |-> "text", score |-> 50],
      [bbox |-> <<1, 0, 1, 2>>, label |-> "table", score |-> 50] }

RECURSIVE SeqsUpTo(_, _)
SeqsUpTo(S, n) ==
    IF n = 0 THEN {<<>>}
    ELSE SeqsUpTo(S, n - 1) \cup
         {Append(q, x) : q \in {r \in SeqsUpTo(S, n - 1) : Len(r) = n - 1}, x \in S}

\* load_predictions: one entry per *.json file of the folder
PredictionFolders ==
    UNION {[D -> SeqsUpTo(KpiPredictions, MaxPreds)] : D \in SUBSET KpiImages}

VariantNames == {"onnx"}

KpiIdle ==
    /\ baseline_preds = None
    /\ variants = None
    /\ kpi_metrics = None
    /\ kpi_pc = "idle"

KpiStart ==
    /\ baseline_preds \in PredictionFolders
    /\ variants \in UNION {[D -> PredictionFolders] : D \in SUBSET VariantNames}
    /\ kpi_metrics = None
    /\ kpi_pc = "start"

Mean(s) == LET t == RatSum(s) IN Rat(t[1], t[2] * Len(s))

Bool01(b) == IF b THEN <<1, 1>> ELSE <<0, 1>>

\* variant.get(img, [])
VarPreds(variant, img) == IF img \in DOMAIN variant THEN variant[img] ELSE <<>>

PairsOf_reversed(base_preds, var_preds) ==
    LET n == Min2(Len(base_preds), Len(var_preds))
    IN  [i \in 1..n |-> <<base_preds[i], var_preds[n + 1 - i]>>]

\* the inner loop of compare_variant for one image: the pairs (base[i], var[i])
PairsOf(base_preds, var_preds) ==
    LET n == Min2(Len(base_preds), Len(var_preds))
    IN  [i \in 1..n |-> <<base_preds[i], var_preds[i]>>]

\* the outer loop of compare_variant from image img on: all pairs, and the
\* per-image box-count differences
RECURSIVE AllPairs(_, _, _)
AllPairs(baseline, variant, img) ==
    IF img > MaxImages THEN <<>>
    ELSE IF img \notin DOMAIN baseline THEN AllPairs(baseline, variant, img + 1)
    ELSE PairsOf(baseline[img], VarPreds(variant, img))
             \o AllPairs(baseline, variant, img + 1)

RECURSIVE DeltaBoxes(_, _, _)
DeltaBoxes(baseline, variant, img) ==
    IF img > MaxImages THEN <<>>
    ELSE IF img \notin DOMAIN baseline THEN DeltaBoxes(baseline, variant, img + 1)
    ELSE <<  <<Len(VarPreds(variant, img)) - Len(baseline[img]), 1>>  >>
             \o DeltaBoxes(baseline, variant, img + 1)

compare_variant(baseline, variant) ==
    LET pairs == AllPairs(baseline, variant, 1)
        ious == [i \in 1..Len(pairs) |-> box_iou(pairs[i][1].bbox, pairs[i][2].bbox)]
        label_eq == [i \in 1..Len(pairs) |->
                        Bool01(pairs[i][1].label = pairs[i][2].label)]
        score_diffs == [i \in 1..Len(pairs) |->
                           <<Abs(pairs[i][1].score - pairs[i][2].score), 1>>]
        delta_boxes == DeltaBoxes(baseline, variant, 1)
        atleast(t) == [i \in 1..Len(ious) |-> Bool01(RatGeq(ious[i], t))]
    IN  [mean_iou |-> IF ious # <<>> THEN Mean(ious) ELSE <<1, 1>>,
         iou50 |-> IF ious # <<>> THEN Mean(atleast(<<1, 2>>)) ELSE <<1, 1>>,
         iou75 |-> IF ious # <<>> THEN Mean(atleast(<<3, 4>>)) ELSE <<1, 1>>,
         label_agreement |-> IF label_eq # <<>> THEN Mean(label_eq) ELSE <<1, 1>>,
         score_delta |-> IF score_diffs # <<>> THEN Mean(score_diffs) ELSE <<0, 1>>,
         delta_boxes |-> IF delta_boxes # <<>> THEN Mean(delta_boxes) ELSE <<0, 1>>,
         ious |-> ious]

RECURSIVE TotalPreds(_, _)
TotalPreds(preds, img) ==
    IF img > MaxImages THEN 0
    ELSE (IF img \in DOMAIN preds THEN Len(preds[img]) ELSE 0)
             + TotalPreds(preds, img + 1)

\* the metrics row that main builds for the variant called name
MetricsRow(name) ==
    IF name = "baseline"
    THEN [mean_iou |-> <<1, 1>>, iou50 |-> <<1, 1>>, iou75 |-> <<1, 1>>,
          label_agreement |-> <<1, 1>>, score_delta |-> <<0, 1>>,
          delta_boxes |-> <<0, 1>>,
          ious |-> [i \in 1..TotalPreds(baseline_preds, 1) |-> <<1, 1>>]]
    ELSE compare_variant(baseline_preds, variants[name])

KpiMain ==
    /\ kpi_pc = "start"
    /\ kpi_metrics' = [name \in {"baseline"} \cup DOMAIN variants |-> MetricsRow(name)]
    /\ kpi_pc' = "done"
    /\ UNCHANGED <<baseline_preds, variants>>
    /\ UNCHANGED not_kpi

KpiNext == KpiMain

SelfCompared(name) == name \in DOMAIN variants /\ variants[name] = baseline_preds

PositiveArea(b) == b[3] > b[1] /\ b[4] > b[2]

AllBoxesPositive(preds) ==
    \A img \in DOMAIN preds : \A i \in 1..Len(preds[img]) :
        PositiveArea(preds[img][i].bbox)

PerfectRow(row) ==
    /\ row.mean_iou = <<1, 1>>
    /\ row.iou50 = <<1, 1>>
    /\ row.label_agreement = <<1, 1>>
    /\ row.delta_boxes = <<0, 1>>

\* C9 as stated: the baseline against itself gives mean_iou = iou@0.5 =
\* label_agreement = 1.0 and delta_boxes = 0.0 for every baseline prediction
\* set, in the baseline row of main and in compare_variant(baseline, baseline).
C9_SelfComparisonAlwaysPerfect ==
    kpi_pc = "done" =>
        /\ PerfectRow(kpi_metrics["baseline"])
        /\ \A name \in VariantNames : SelfCompared(name) => PerfectRow(kpi_metrics[name])

\* C9 amended: the baseline row of main is always perfect; compare_variant of
\* the baseline with itself always gives label_agreement = 1.0 and
\* delta_boxes = 0.0, and gives mean_iou = iou@0.5 = 1.0 when every baseline
\* box has positive area.
C9_SelfComparisonPositiveArea ==
    kpi_pc = "done" =>
        /\ PerfectRow(kpi_metrics["baseline"])
        /\ \A name \in VariantNames : SelfCompared(name) =>
               /\ kpi_metrics[name].label_agreement = <<1, 1>>
               /\ kpi_metrics[name].delta_boxes = <<0, 1>>
               /\ (AllBoxesPositive(baseline_preds) => PerfectRow(kpi_metrics[name]))

\* a variant equal to a baseline of two different boxes of positive area
C9_Witness ==
    /\ kpi_pc = "done"
    /\ SelfCompared("onnx")
    /\ AllBoxesPositive(baseline_preds)
    /\ \E img \in DOMAIN baseline_preds :
           /\ Len(baseline_preds[img]) = 2
           /\ baseline_preds[img][1] # baseline_preds[img][2]
    /\ Len(kpi_metrics["onnx"].ious) = 2

\* the permutations of 1..n
Perms(n) == {p \in [1..n -> 1..n] : \A i, j \in 1..n : i # j => p[i] # p[j]}

\* the arrangements of preds by descending score
ByDescendingScore(preds) ==
    {[i \in 1..Len(preds) |-> preds[p[i]]] : p \in
        {q \in Perms(Len(preds)) :
            \A i, j \in 1..Len(preds) : i < j => preds[q[i]].score >= preds[q[j]].score}}

\* a folder with every list of it arranged by descending score
ByDescendingScores(folder) ==
    {f \in [DOMAIN folder -> SeqsUpTo(KpiPredictions, MaxPreds)] :
        \A img \in DOMAIN folder : f[img] \in ByDescendingScore(folder[img])}

Iou50Min == 995
MeanIouMin == 990
DboxMax == 1000
SizeMaxMB == 500

GateIdle ==
    /\ iou50_int8 = None
    /\ mean_iou_int8 = None
    /\ dbox_int8 = None
    /\ mean_int8 = None
    /\ p95_int8 = None
    /\ mean_opt = None
    /\ p95_opt = None
    /\ size_int8 = None
    /\ gate_pc = "idle"

\* the state of main just before the acceptance check
GateStart ==
    /\ iou50_int8 \in {Iou50Min - 1, Iou50Min, 1000}
    /\ mean_iou_int8 \in {MeanIouMin - 1, MeanIouMin, 1000}
    /\ dbox_int8 \in {-DboxMax - 1, -DboxMax, 0, DboxMax, DboxMax + 1}
    /\ mean_opt \in {100, 101}
    /\ mean_int8 \in {89, 90, 91}
    /\ p95_opt \in {200}
    /\ p95_int8 \in {179, 180, 181}
    /\ size_int8 \in {SizeMaxMB - 1, SizeMaxMB, SizeMaxMB + 1}
    /\ gate_pc = "start"

\* x <= y * 0.9
LeqNineTenths(x, y) == 10 * x <= 9 * y

ThresholdsMet_strict ==
    /\ iou50_int8 > Iou50Min
    /\ mean_iou_int8 >= MeanIouMin
    /\ Abs(dbox_int8) <= DboxMax
    /\ \/ LeqNineTenths(mean_int8, mean_opt) /\ LeqNineTenths(p95_int8, p95_opt)
       \/ size_int8 <= SizeMaxMB

ThresholdsMet ==
    /\ iou50_int8 >= Iou50Min
    /\ mean_iou_int8 >= MeanIouMin
    /\ Abs(dbox_int8) <= DboxMax
    /\ \/ LeqNineTenths(mean_int8, mean_opt) /\ LeqNineTenths(p95_int8, p95_opt)
       \/ size_int8 <= SizeMaxMB

AcceptanceCheck ==
    /\ gate_pc = "start"
    /\ gate_pc' = IF ~ThresholdsMet THEN "RuntimeError" ELSE "printed"
    /\ UNCHANGED <<iou50_int8, mean_iou_int8, dbox_int8, mean_int8, p95_int8,
                   mean_opt, p95_opt, size_int8>>
    /\ UNCHANGED not_gate

GateNext == AcceptanceCheck

GateChecked == gate_pc \in {"RuntimeError", "printed"}

AccuracyAtBounds ==
    /\ iou50_int8 = Iou50Min
    /\ mean_iou_int8 = MeanIouMin
    /\ Abs(dbox_int8) = DboxMax

LatencyWithinBound ==
    /\ 10 * mean_int8 <= 9 * mean_opt
    /\ 10 * p95_int8 <= 9 * p95_opt

\* C5 as stated: the gate passes with every quantity on its bound, and it
\* raises as soon as any one of iou@0.5, mean_iou, |delta_boxes%|, mean
\* latency or p95 latency is past its bound.
C5_AnyQuantityPastBoundRaises ==
    GateChecked =>
        /\ (AccuracyAtBounds /\ LatencyWithinBound => gate_pc = "printed")
        /\ (iou50_int8 < Iou50Min => gate_pc = "RuntimeError")
        /\ (mean_iou_int8 < MeanIouMin => gate_pc = "RuntimeError")
        /\ (Abs(dbox_int8) > DboxMax => gate_pc = "RuntimeError")
        /\ (10 * mean_int8 > 9 * mean_opt => gate_pc = "RuntimeError")
        /\ (10 * p95_int8 > 9 * p95_opt => gate_pc = "RuntimeError")

\* C5 amended: the gate passes with every quantity on its bound; it raises as
\* soon as iou@0.5, mean_iou or |delta_boxes%| is past its bound, and as soon
\* as the mean or the p95 latency is past its bound while the int8 model is
\* larger than 50.0 MB.
C5_PastBoundRaisesUnlessSmall ==
    GateChecked =>
        /\ (AccuracyAtBounds /\ LatencyWithinBound => gate_pc = "printed")
        /\ (iou50_int8 < Iou50Min => gate_pc = "RuntimeError")
        /\ (mean_iou_int8 < MeanIouMin => gate_pc = "RuntimeError")
        /\ (Abs(dbox_int8) > DboxMax => gate_pc = "RuntimeError")
        /\ (10 * mean_int8 > 9 * mean_opt /\ size_int8 > SizeMaxMB
                => gate_pc = "RuntimeError")
        /\ (10 * p95_int8 > 9 * p95_opt /\ size_int8 > SizeMaxMB
                => gate_pc = "RuntimeError")

\* every quantity exactly on its bound, the model larger than 50 MB: passes
C5_Witness ==
    /\ gate_pc = "printed"
    /\ AccuracyAtBounds
    /\ 10 * mean_int8 = 9 * mean_opt
    /\ 10 * p95_int8 = 9 * p95_opt
    /\ size_int8 > SizeMaxMB

(***************************************************************************)
(* scripts/download_release_assets                                         *)
(***************************************************************************)
MaxAssets == 2

AssetNames == {"a.onnx", "b.onnx"}
AssetSizes == {1, 2}
EnvNames == <<"GITHUB_TOKEN", "GITHUB_PAT", "GH_TOKEN">>

\* an optional integer or record: <<>> is Python's None, <<v>> the value v
Absent == <<>>
Some(v) == <<v>>
Value(o) == o[1]

\* an asset of the release JSON; a missing key reads as None
AssetRecords ==
    [name : AssetNames \cup {None}, browser_download_url : {"url", None},
     size : {Some(1), Absent}]

\* the asset lists a release can carry: names are unique within a release
AssetLists ==
    {l \in SeqsUpTo(AssetRecords, MaxAssets) :
        \A i, j \in 1..Len(l) :
            i # j /\ l[i].name # None => l[i].name # l[j].name}

\* the files of the output directory: a size and whether this run wrote it
DiskStates ==
    [AssetNames -> {Absent} \cup {Some(f) : f \in [size : AssetSizes, written : {FALSE}]}]

Releases ==
    {[status |-> "HTTPError", assets |-> <<>>]} \cup
    {[status |-> "ok", assets |-> l] : l \in AssetLists}

DlIdle ==
    /\ args_token = None
    /\ args_skip_existing = None
    /\ environ = None
    /\ release = None
    /\ disk_before = None
    /\ token = None
    /\ assets = <<>>
    /\ next_asset = 0
    /\ disk = None
    /\ outcomes = <<>>
    /\ api_requests = 0
    /\ dl_exit = None
    /\ dl_pc = "idle"

DlStart(Tokens, Environs, Rels) ==
    /\ args_token \in Tokens
    /\ args_skip_existing \in BOOLEAN
    /\ environ \in Environs
    /\ release \in Rels
    /\ disk_before \in DiskStates
    /\ token = None
    /\ assets = <<>>
    /\ next_asset = 0
    /\ disk = disk_before
    /\ outcomes = <<>>
    /\ api_requests = 0
    /\ dl_exit = None
    /\ dl_pc = "read_token"

\* if candidate
Truthy_emptyCounts(v) == v # None

Truthy(v) == v # None /\ v # ""

\* the first truthy candidate from position i on, None when there is none
RECURSIVE FirstTruthy(_, _)
FirstTruthy(candidates, i) ==
    IF i > Len(candidates) THEN None
    ELSE IF Truthy(candidates[i]) THEN candidates[i]
    ELSE FirstTruthy(candidates, i + 1)

read_token(env_var) ==
    FirstTruthy(<<env_var, environ[EnvNames[1]], environ[EnvNames[2]],
                  environ[EnvNames[3]]>>, 1)

ReadToken ==
    /\ dl_pc = "read_token"
    /\ token' = read_token(args_token)
    /\ IF token' = None
       THEN dl_exit' = "SystemExit: token not provided" /\ dl_pc' = "exited"
       ELSE dl_exit' = dl_exit /\ dl_pc' = "request_json"
    /\ UNCHANGED <<args_token, args_skip_existing, environ, release, disk_before,
                   assets, next_asset, disk, outcomes, api_requests, not_dl>>

RequestJson ==
    /\ dl_pc = "request_json"
    /\ api_requests' = api_requests + 1
    /\ IF release.status = "HTTPError"
       THEN /\ dl_exit' = "SystemExit: failed to query"
            /\ dl_pc' = "exited"
            /\ UNCHANGED <<assets, next_asset>>
       ELSE /\ assets' = release.assets
            /\ IF release.assets = <<>>
               THEN dl_exit' = "0" /\ dl_pc' = "exited" /\ next_asset' = next_asset
               ELSE dl_exit' = dl_exit /\ dl_pc' = "loop" /\ next_asset' = 1
    /\ UNCHANGED <<args_token, args_skip_existing, environ, release, disk_before,
                   token, disk, outcomes, not_dl>>

InLoop == dl_pc = "loop" /\ next_asset <= Len(assets)

asset == assets[next_asset]

Unnamed(a) == ~Truthy(a.name) \/ ~Truthy(a.browser_download_url)

\* the skip test of the loop body
AlreadyDownloaded_ignoringSize(a) ==
    /\ args_skip_existing
    /\ disk[a.name] # Absent
    /\ a.size # Absent

AlreadyDownloaded(a) ==
    /\ args_skip_existing
    /\ disk[a.name] # Absent
    /\ a.size # Absent
    /\ Value(disk[a.name]).size = Value(a.size)

Continue(what) ==
    /\ outcomes' = Append(outcomes, what)
    /\ next_asset' = next_asset + 1
    /\ UNCHANGED <<dl_exit, dl_pc>>

Exit(what, code) ==
    /\ outcomes' = Append(outcomes, what)
    /\ dl_exit' = code
    /\ dl_pc' = "exited"
    /\ UNCHANGED next_asset

dl_inputs == <<args_token, args_skip_existing, environ, release, disk_before,
               token, assets, api_requests, not_dl>>

\* if not name or not download_url: continue
SkipUnnamed ==
    /\ InLoop
    /\ Unnamed(asset)
    /\ Continue("no name or url")
    /\ UNCHANGED <<dl_inputs, disk>>

SkipExisting ==
    /\ InLoop
    /\ ~Unnamed(asset)
    /\ AlreadyDownloaded(asset)
    /\ Continue("skipped")
    /\ UNCHANGED <<dl_inputs, disk>>

\* if size is not None: ... if downloaded_size != size
SizeMismatch_truncatedOnly(a, got) == a.size # Absent /\ got < Value(a.size)

SizeMismatch(a, got) == a.size # Absent /\ got # Value(a.size)

\* download_asset returns after writing got bytes; the size check follows
Download ==
    /\ InLoop
    /\ ~Unnamed(asset)
    /\ ~AlreadyDownloaded(asset)
    /\ \E got \in AssetSizes :
          /\ disk' = [disk EXCEPT ![asset.name] = Some([size |-> got, written |-> TRUE])]
          /\ IF SizeMismatch(asset, got)
             THEN Exit("downloaded", "SystemExit: size mismatch")
             ELSE Continue("downloaded")
    /\ UNCHANGED dl_inputs

\* urlopen raises HTTPError: the destination is not opened
DownloadHTTPError ==
    /\ InLoop
    /\ ~Unnamed(asset)
    /\ ~AlreadyDownloaded(asset)
    /\ Exit("http error", "SystemExit: failed to download")
    /\ UNCHANGED <<dl_inputs, disk>>

\* the connection breaks while the body is read: the destination holds the
\* bytes received so far and the exception leaves main
DownloadAborted ==
    /\ InLoop
    /\ ~Unnamed(asset)
    /\ ~AlreadyDownloaded(asset)
    /\ \E got \in AssetSizes :
          disk' = [disk EXCEPT ![asset.name] = Some([size |-> got, written |-> TRUE])]
    /\ Exit("aborted", "Exception")
    /\ UNCHANGED dl_inputs

Return0 ==
    /\ dl_pc = "loop"
    /\ next_asset > Len(assets)
    /\ dl_exit' = "0"
    /\ dl_pc' = "exited"
    /\ UNCHANGED <<dl_inputs, disk, outcomes, next_asset>>

DlNext ==
    \/ ReadToken
    \/ RequestJson
    \/ SkipUnnamed
    \/ SkipExisting
    \/ Download
    \/ DownloadHTTPError
    \/ DownloadAborted
    \/ Return0

Processed == 1..Len(outcomes)

HasDeclaredSize(k) == assets[k].size # Absent

OnDiskDiffers(k) ==
    Value(disk[assets[k].name]).size # Value(assets[k].size)

\* C6: an asset with a declared size that was downloaded and whose file does
\* not have the declared byte count ends the run with the size-mismatch
\* error, and no later asset of the list is processed; the run returns 0
\* only if every downloaded asset with a declared size has exactly that size.
C6_SizeMismatchIsFatal ==
    /\ \A k \in Processed :
          outcomes[k] = "downloaded" /\ HasDeclaredSize(k) /\ OnDiskDiffers(k) =>
              /\ dl_pc = "exited"
              /\ dl_exit = "SystemExit: size mismatch"
              /\ Len(outcomes) = k
              /\ \A j \in (k + 1)..Len(assets) :
                     assets[j].name # None =>
                         disk[assets[j].name] = disk_before[assets[j].name]
    /\ dl_exit = "0" =>
          \A k \in Processed :
              outcomes[k] = "downloaded" /\ HasDeclaredSize(k) => ~OnDiskDiffers(k)

\* the first of two assets arrives with a wrong size; the second, which
\* would have been downloaded, is not reached
C6_Witness ==
    /\ dl_exit = "SystemExit: size mismatch"
    /\ Len(assets) = 2
    /\ outcomes = <<"downloaded">>
    /\ ~Unnamed(assets[2])
    /\ ~args_skip_existing

ExistsWithDeclaredSize(a) ==
    /\ a.name \in AssetNames
    /\ disk_before[a.name] # Absent
    /\ a.size # Absent
    /\ Value(disk_before[a.name]).size = Value(a.size)

DownloadAttempted(k) == outcomes[k] \in {"downloaded", "http error", "aborted"}

SkippedUntouched(k) ==
    /\ outcomes[k] = "skipped"
    /\ disk[assets[k].name] = disk_before[assets[k].name]

\* C7 as stated: every asset the loop handles is left alone when
\* --skip-existing is set and its file exists with the declared size, and is
\* downloaded in every other case.
C7_DownloadedInEveryOtherCase ==
    \A k \in Processed :
        IF args_skip_existing /\ ExistsWithDeclaredSize(assets[k])
        THEN SkippedUntouched(k)
        ELSE DownloadAttempted(k)

\* C7 amended: every asset the loop handles that has a name and a download
\* URL is left alone when --skip-existing is set and its file exists with the
\* declared size, and has its download started in every other case (flag
\* not set, file absent, size different, declared size missing); a download
\* that completes replaces the file.  An asset without a name or without a
\* download URL is never downloaded.
C7_NamedDownloadedInEveryOtherCase ==
    \A k \in Processed :
        IF Unnamed(assets[k])
        THEN outcomes[k] = "no name or url"
        ELSE IF args_skip_existing /\ ExistsWithDeclaredSize(assets[k])
        THEN SkippedUntouched(k)
        ELSE /\ DownloadAttempted(k)
             /\ outcomes[k] = "downloaded" =>
                    /\ disk[assets[k].name] # Absent
                    /\ Value(disk[assets[k].name]).written

\* with --skip-existing: one asset skipped, and one whose file had another
\* size downloaded over it
C7_Witness ==
    /\ args_skip_existing
    /\ outcomes = <<"skipped", "downloaded">>
    /\ disk_before[assets[2].name] # Absent
    /\ assets[2].size # Absent
    /\ Value(disk_before[assets[2].name]).size # Value(assets[2].size)
    /\ dl_exit = "0"

\* the candidates of read_token in their order, and the first that is set
\* and not empty
Candidates == <<args_token, environ["GITHUB_TOKEN"], environ["GITHUB_PAT"], environ["GH_TOKEN"]>>

Given == {i \in 1..Len(Candidates) : Candidates[i] # None /\ Candidates[i] # ""}

\* C14: the token is the first non-empty value among --token, GITHUB_TOKEN,
\* GITHUB_PAT and GH_TOKEN; when there is none the program exits fatally
\* and no request has been sent to the API.
C14_FirstTokenOrFatalExit ==
    dl_pc # "read_token" =>
        IF Given = {}
        THEN /\ dl_pc = "exited"
             /\ dl_exit = "SystemExit: token not provided"
             /\ api_requests = 0
             /\ outcomes = <<>>
        ELSE /\ token = Candidates[CHOOSE i \in Given : \A j \in Given : i <= j]
             /\ dl_exit # "SystemExit: token not provided"
             /\ api_requests = 1 \/ dl_pc = "request_json"

\* an empty --token and an empty GITHUB_TOKEN are passed over for GITHUB_PAT,
\* although GH_TOKEN is set as well
C14_Witness ==
    /\ args_token = ""
    /\ environ["GITHUB_TOKEN"] = ""
    /\ environ["GITHUB_PAT"] = "GITHUB_PAT"
    /\ environ["GH_TOKEN"] = "GH_TOKEN"
    /\ token = "GITHUB_PAT"
    /\ api_requests = 1

(***************************************************************************)
(* tableformer_docling.predictor.TableFormerDocling                        *)
(***************************************************************************)
MaxCalls == 3

NoCall == [op |-> "none", result |-> "none", ndim |-> 0, tokens |-> Absent,
           do_cell_matching |-> FALSE, page_tokens |-> Absent,
           do_matching |-> FALSE, external_calls |-> 0]

TfIdle ==
    /\ _predictor = 0
    /\ _config = 0
    /\ model_dir_exists = FALSE
    /\ config_exists = FALSE
    /\ downloads = 0
    /\ constructions = 0
    /\ load_failures = 0
    /\ uses = 0
    /\ first_use_dir = "idle"
    /\ predictors_used = {}
    /\ configs_returned = {}
    /\ last_call = NoCall
    /\ tf_calls = 0

\* __init__: nothing is loaded; 0 stands for None, k > 0 for the object made
\* by the k-th read_config or TFPredictor call
TfStart ==
    /\ _predictor = 0
    /\ _config = 0
    /\ model_dir_exists \in BOOLEAN
    /\ config_exists \in BOOLEAN
    /\ config_exists => model_dir_exists
    /\ downloads = 0
    /\ constructions = 0
    /\ load_failures = 0
    /\ uses = 0
    /\ first_use_dir = "unused"
    /\ predictors_used = {}
    /\ configs_returned = {}
    /\ last_call = NoCall
    /\ tf_calls = 0

\* _load_predictor, ending with res ("ok" or the exception raised).  The
\* environment decides whether the download fails (dl_fails), what the model
\* directory holds after a download (dir_after, cfg_after) and whether the
\* TFPredictor constructor raises (ctor_fails).
LoadPredictor(res, dl_fails, dir_after, cfg_after, ctor_fails) ==
    LET need_download == ~model_dir_exists
        cfg_there == IF need_download THEN cfg_after ELSE config_exists
    IN  /\ cfg_after => dir_after
        /\ first_use_dir' = IF first_use_dir = "unused"
                            THEN (IF model_dir_exists THEN "present" ELSE "absent")
                            ELSE first_use_dir
        /\ downloads' = IF need_download THEN downloads + 1 ELSE downloads
        /\ model_dir_exists' = IF need_download THEN dir_after ELSE model_dir_exists
        /\ config_exists' = cfg_there
        /\ IF need_download /\ dl_fails
           THEN /\ res = "DownloadError"
                /\ UNCHANGED <<_config, _predictor, constructions>>
           ELSE IF ~cfg_there
           THEN /\ res = "FileNotFoundError"
                /\ UNCHANGED <<_config, _predictor, constructions>>
           ELSE /\ _config' = constructions + 1
                /\ constructions' = constructions + 1
                /\ IF ctor_fails
                   THEN res = "PredictorError" /\ UNCHANGED _predictor
                   ELSE res = "ok" /\ _predictor' = constructions + 1
        /\ load_failures' = IF res = "ok" THEN load_failures ELSE load_failures + 1

NotLoaded == UNCHANGED <<_config, _predictor, constructions, model_dir_exists,
                         config_exists, downloads, load_failures, first_use_dir>>

LoadResults == {"ok", "DownloadError", "FileNotFoundError", "PredictorError"}

\* if self._predictor is None
predictor_unset_always == TRUE
predictor_unset == _predictor = 0

\* if self._config is None
config_unset == _config = 0

\* the predictor property, ending with res
GetPredictor(res) ==
    IF predictor_unset
    THEN \E dl_fails, dir_after, cfg_after, ctor_fails \in BOOLEAN :
             LoadPredictor(res, dl_fails, dir_after, cfg_after, ctor_fails)
    ELSE res = "ok" /\ NotLoaded

Called(call) ==
    /\ tf_calls < MaxCalls
    /\ tf_calls' = tf_calls + 1
    /\ last_call' = call
    /\ UNCHANGED not_tf

\* instance.predictor
Predictor ==
    \E res \in LoadResults :
        /\ GetPredictor(res)
        /\ uses' = uses + 1
        /\ predictors_used' = IF res = "ok" THEN predictors_used \cup {_predictor'}
                               ELSE predictors_used
        /\ UNCHANGED configs_returned
        /\ Called([NoCall EXCEPT !.op = "predictor", !.result = res])

\* instance.get_config()
GetConfig ==
    \E res \in LoadResults :
        /\ IF config_unset
           THEN \E dl_fails, dir_after, cfg_after, ctor_fails \in BOOLEAN :
                    LoadPredictor(res, dl_fails, dir_after, cfg_after, ctor_fails)
           ELSE res = "ok" /\ NotLoaded
        /\ uses' = uses + 1
        /\ configs_returned' = IF res = "ok" THEN configs_returned \cup {_config'}
                                ELSE configs_returned
        /\ UNCHANGED predictors_used
        /\ Called([NoCall EXCEPT !.op = "get_config", !.result = res])

\* bool(page_input["tokens"])
Truth_always(list) == TRUE

Truth(list) == list # <<>>

\* if image.ndim != 3
InvalidImage_never(ndim) == FALSE

InvalidImage(ndim) == ndim # 3

ImageDims == {2, 3, 4}

\* instance.predict_page(image, tokens=tokens, do_cell_matching=...) with an
\* image of ndim dimensions
PredictPage ==
    \E ndim \in ImageDims, tokens \in {Absent, Some(<<>>), Some(<<"tok">>)},
       do_cell_matching \in BOOLEAN :
        LET call == [NoCall EXCEPT !.op = "predict_page", !.ndim = ndim,
                        !.tokens = tokens, !.do_cell_matching = do_cell_matching]
            page_tokens == IF tokens # Absent THEN Value(tokens) ELSE <<>>
            effective_matching == do_cell_matching /\ Truth(page_tokens)
        IN  IF InvalidImage(ndim)
            THEN /\ NotLoaded
                 /\ UNCHANGED <<uses, predictors_used, configs_returned>>
                 /\ Called([call EXCEPT !.result = "ValueError"])
            ELSE \E res \in LoadResults :
                    /\ GetPredictor(res)
                    /\ uses' = uses + 1
                    /\ predictors_used' =
                           IF res = "ok" THEN predictors_used \cup {_predictor'}
                           ELSE predictors_used
                    /\ UNCHANGED configs_returned
                    /\ Called([call EXCEPT
                                 !.result = res,
                                 !.page_tokens = Some(page_tokens),
                                 !.do_matching = (res = "ok" /\ effective_matching),
                                 !.external_calls = IF res = "ok" THEN 1 ELSE 0])

TfNext ==
    \/ Predictor
    \/ GetConfig
    \/ PredictPage

\* C10: construction downloads nothing and builds no predictor; while no
\* load has failed, the artifacts are downloaded at most once and only if
\* the model directory was absent at the first use, the external predictor
\* has been constructed exactly once as soon as the instance has been used,
\* and all calls have used one predictor and returned one config.
C10_LoadedOnceOnFirstUse ==
    /\ uses = 0 => downloads = 0 /\ constructions = 0 /\ _predictor = 0 /\ _config = 0
    /\ load_failures = 0 =>
          /\ downloads <= 1
          /\ (downloads = 1 => first_use_dir = "absent")
          /\ (uses >= 1 => constructions = 1)
          /\ Cardinality(predictors_used) <= 1
          /\ Cardinality(configs_returned) <= 1
          /\ predictors_used \subseteq {_predictor}
          /\ configs_returned \subseteq {_config}

\* three successful uses, the first of which had to download
C10_Witness ==
    /\ load_failures = 0
    /\ uses = 3
    /\ downloads = 1
    /\ first_use_dir = "absent"
    /\ predictors_used = {1}
    /\ configs_returned = {1}
    /\ last_call.op = "predict_page"

\* C11: predict_page with an image that does not have 3 dimensions raises
\* ValueError without a download, a config load, a predictor construction
\* or a call of the external predictor, and leaves the instance as loaded
\* or unloaded as it was.
C11_InvalidImageTouchesNothing ==
    [][(tf_calls' = tf_calls + 1 /\ last_call'.op = "predict_page" /\ last_call'.ndim # 3) =>
          /\ last_call'.result = "ValueError"
          /\ last_call'.external_calls = 0
          /\ last_call'.page_tokens = Absent
          /\ UNCHANGED <<_predictor, _config, downloads, constructions, load_failures,
                         model_dir_exists, config_exists, uses, predictors_used>>]_vars

\* an invalid image given to an instance that is not loaded yet, although
\* the artifacts are absent
C11_Witness ==
    /\ last_call.op = "predict_page"
    /\ last_call.ndim # 3
    /\ last_call.result = "ValueError"
    /\ _predictor = 0
    /\ ~model_dir_exists
    /\ downloads = 0

\* C12: the external predictor is called with do_matching = true exactly
\* when do_cell_matching is true and tokens were given and are non-empty,
\* and the page input carries the given tokens as a list, the empty list
\* when none were given.
C12_MatchingOnlyWithTokens ==
    (last_call.op = "predict_page" /\ last_call.external_calls = 1) =>
        /\ last_call.do_matching =
               (/\ last_call.do_cell_matching
                /\ last_call.tokens # Absent
                /\ last_call.tokens # Some(<<>>))
        /\ last_call.page_tokens =
               (IF last_call.tokens = Absent THEN Some(<<>>) ELSE last_call.tokens)

\* matching asked for without tokens: the predictor is called with
\* do_matching = false and an empty token list
C12_Witness ==
    /\ last_call.op = "predict_page"
    /\ last_call.external_calls = 1
    /\ last_call.do_cell_matching
    /\ last_call.tokens = Absent
    /\ ~last_call.do_matching
    /\ last_call.page_tokens = Some(<<>>)

\* C30: a call whose load failed on a missing tm_config.json or in the
\* TFPredictor constructor leaves both the stored config and the stored
\* predictor unset; the two are set or unset together, so that either
\* accessor loads again after a failure; and get_config has returned a
\* config only if a predictor exists.
C30_FailedLoadLeavesUnloaded ==
    /\ last_call.result \in {"FileNotFoundError", "PredictorError"}
          => _config = 0 /\ _predictor = 0
    /\ (_config = 0) <=> (_predictor = 0)
    /\ configs_returned # {} => _predictor # 0

(***************************************************************************)
(* scripts/export_tableformer_post_processing.  A bbox coordinate is a     *)
(* fixed-point integer counting quarters of a unit; the coordinates of the *)
(* input cells are whole units, on which every division by 2.0 of the      *)
(* alignment step is exact.  A dict is the sequence of its items in        *)
(* insertion order.                                                        *)
(***************************************************************************)
Unit == 2 * 2

Half(x) == x \div 2

DictKeys(dict) == {dict[i].key : i \in 1..Len(dict)}

DictIndex(dict, k) == CHOOSE i \in 1..Len(dict) : dict[i].key = k

DictGet(dict, k) == dict[DictIndex(dict, k)].value

\* dict.setdefault(k, []).append(item)
DictAppend(dict, k, item) ==
    IF k \in DictKeys(dict)
    THEN [dict EXCEPT ![DictIndex(dict, k)].value = Append(@, item)]
    ELSE Append(dict, [key |-> k, value |-> <<item>>])

\* dict[k] = v
DictSet(dict, k, v) ==
    IF k \in DictKeys(dict)
    THEN [dict EXCEPT ![DictIndex(dict, k)].value = v]
    ELSE Append(dict, [key |-> k, value |-> v])

\* int(pdf_id) on the numerals used as PDF cell ids
Numerals == <<"0", "1", "2", "3", "4", "5", "6", "7", "8", "9">>

ParseInt(str) == (CHOOSE i \in 1..Len(Numerals) : Numerals[i] = str) - 1

\* sorted(values)
RECURSIVE InsertSorted(_, _)
InsertSorted(sorted, x) ==
    IF sorted = <<>> THEN <<x>>
    ELSE IF x < Head(sorted) THEN <<x>> \o sorted
    ELSE <<Head(sorted)>> \o InsertSorted(Tail(sorted), x)

RECURSIVE Sorted(_)
Sorted(values) ==
    IF values = <<>> THEN <<>>
    ELSE InsertSorted(Sorted(SubSeq(values, 1, Len(values) - 1)), values[Len(values)])

_median(values) ==
    IF values = <<>> THEN 0
    ELSE LET sorted_values == Sorted(values)
             mid == Len(sorted_values) \div 2
         IN  IF Len(sorted_values) % 2 = 0
             THEN Half(sorted_values[mid] + sorted_values[mid + 1])
             ELSE sorted_values[mid + 1]

_bbox_area(bbox) ==
    LET width == bbox[3] - bbox[1]
        height == bbox[4] - bbox[2]
    IN  IF width <= 0 \/ height <= 0 THEN 0 ELSE width * height

_bbox_intersection(a, b) ==
    LET left == Max2(a[1], b[1])
        top == Max2(a[2], b[2])
        right == Min2(a[3], b[3])
        bottom == Min2(a[4], b[4])
    IN  IF right <= left \/ bottom <= top THEN Absent
        ELSE Some(<<left, top, right, bottom>>)

_clear_pdf_cells(pdf_cells) == SelectSeq(pdf_cells, LAMBDA cell : cell.text # "")

\* value.sort(key=iopdf, reverse=True): stable, descending
RECURSIVE InsertByScore(_, _)
InsertByScore(sorted, m) ==
    IF sorted = <<>> THEN <<m>>
    ELSE IF RatGeq(m.iopdf, Head(sorted).iopdf) THEN <<m>> \o sorted
    ELSE <<Head(sorted)>> \o InsertByScore(Tail(sorted), m)

RECURSIVE SortedByScore(_)
SortedByScore(list) ==
    IF list = <<>> THEN <<>>
    ELSE InsertByScore(SortedByScore(Tail(list)), Head(list))

\* the body of the double loop of _compute_intersection_matches for the
\* pair (cell, pdf_cell)
MatchPair(matches, cell, pdf_cell) ==
    LET intersection == _bbox_intersection(cell.bbox, pdf_cell.bbox)
        pdf_area == _bbox_area(pdf_cell.bbox)
    IN  IF intersection = Absent THEN matches
        ELSE IF pdf_area <= 0 THEN matches
        ELSE IF _bbox_area(Value(intersection)) <= 0 THEN matches
        ELSE DictAppend(matches, pdf_cell.id,
                        [table_cell_id |-> cell.cell_id,
                         iopdf |-> Rat(_bbox_area(Value(intersection)), pdf_area)])

\* the double loop from the k-th pair on, pairs counted row by row
RECURSIVE MatchLoop(_, _, _, _)
MatchLoop(matches, table_cells, pdf_cells, k) ==
    IF k > Len(table_cells) * Len(pdf_cells) THEN matches
    ELSE LET cell == table_cells[((k - 1) \div Len(pdf_cells)) + 1]
             pdf_cell == pdf_cells[((k - 1) % Len(pdf_cells)) + 1]
         IN  MatchLoop(MatchPair(matches, cell, pdf_cell), table_cells, pdf_cells, k + 1)

_compute_intersection_matches(table_cells, pdf_cells) ==
    IF table_cells = <<>> \/ pdf_cells = <<>> THEN <<>>
    ELSE LET matches == MatchLoop(<<>>, table_cells, pdf_cells, 1)
         IN  [i \in 1..Len(matches) |->
                 [key |-> matches[i].key, value |-> SortedByScore(matches[i].value)]]

RECURSIVE MaxOver(_, _, _)
MaxOver(start, cells, field) ==
    IF cells = <<>> THEN start
    ELSE MaxOver(Max2(start, Head(cells)[field]), Tail(cells), field)

_get_table_dimension(table_cells) ==
    [columns |-> MaxOver(1, table_cells, "column_id") + 1,
     rows |-> MaxOver(1, table_cells, "row_id") + 1,
     max_cell_id |-> MaxOver(0, table_cells, "cell_id")]

\* any(match["table_cell_id"] == cell_id for match in match_list)
Refers(match_list, cell_id) ==
    \E i \in 1..Len(match_list) : match_list[i].table_cell_id = cell_id

Matched(matches, cell_id) ==
    \E i \in 1..Len(matches) : Refers(matches[i].value, cell_id)

_get_good_bad_cells_in_column(table_cells, column, matches) ==
    [good |-> SelectSeq(table_cells, LAMBDA cell :
                  /\ cell.column_id = column
                  /\ cell.cell_class > 1
                  /\ Matched(matches, cell.cell_id)),
     bad |-> SelectSeq(table_cells, LAMBDA cell :
                  /\ cell.column_id = column
                  /\ (cell.cell_class <= 1 \/ ~Matched(matches, cell.cell_id)))]

\* the reference x-coordinate of a bbox under an alignment
Reference(bbox, align) ==
    IF align = "center" THEN Half(bbox[1] + bbox[3])
    ELSE IF align = "right" THEN bbox[3]
    ELSE bbox[1]

RECURSIVE MaxOf(_)
MaxOf(values) ==
    IF Len(values) = 1 THEN values[1] ELSE Max2(values[1], MaxOf(Tail(values)))

RECURSIVE MinOf(_)
MinOf(values) ==
    IF Len(values) = 1 THEN values[1] ELSE Min2(values[1], MinOf(Tail(values)))

\* called on non-empty lists only
_alignment_range(cells, align) ==
    LET values == [i \in 1..Len(cells) |-> Reference(cells[i].bbox, align)]
    IN  MaxOf(values) - MinOf(values)

_find_alignment_in_column_lastWins(cells) ==
    IF cells = <<>> THEN "left"
    ELSE LET left == _alignment_range(cells, "left")
             center == _alignment_range(cells, "center")
             right == _alignment_range(cells, "right")
             min_range == IF center <= left THEN center ELSE left
         IN  IF right <= min_range THEN "right"
             ELSE IF center <= left THEN "center"
             ELSE "left"

_find_alignment_in_column(cells) ==
    IF cells = <<>> THEN "left"
    ELSE LET left == _alignment_range(cells, "left")
             center == _alignment_range(cells, "center")
             right == _alignment_range(cells, "right")
             min_range == IF center < left THEN center ELSE left
         IN  IF right < min_range THEN "right"
             ELSE IF center < left THEN "center"
             ELSE "left"

\* the same with a unit square where the column has no good cell
_median_position_and_size_unitWhenEmpty(cells, align) ==
    IF cells = <<>>
    THEN [position |-> 0, vertical |-> 0, width |-> Unit, height |-> Unit]
    ELSE [position |-> _median([i \in 1..Len(cells) |-> Reference(cells[i].bbox, align)]),
          vertical |-> _median([i \in 1..Len(cells) |->
                                   Half(cells[i].bbox[2] + cells[i].bbox[4])]),
          width |-> _median([i \in 1..Len(cells) |->
                                Abs(cells[i].bbox[3] - cells[i].bbox[1])]),
          height |-> _median([i \in 1..Len(cells) |->
                                 Abs(cells[i].bbox[4] - cells[i].bbox[2])])]

_median_position_and_size(cells, align) ==
    IF cells = <<>>
    THEN [position |-> 0, vertical |-> 0, width |-> 0, height |-> 0]
    ELSE [position |-> _median([i \in 1..Len(cells) |-> Reference(cells[i].bbox, align)]),
          vertical |-> _median([i \in 1..Len(cells) |->
                                   Half(cells[i].bbox[2] + cells[i].bbox[4])]),
          width |-> _median([i \in 1..Len(cells) |->
                                Abs(cells[i].bbox[3] - cells[i].bbox[1])]),
          height |-> _median([i \in 1..Len(cells) |->
                                 Abs(cells[i].bbox[4] - cells[i].bbox[2])])]

MoveCell_inPlace(cell, position, align, width, height) == cell

MoveCell(cell, position, align, width, height) ==
    LET center_y == Half(cell.bbox[2] + cell.bbox[4])
        left == IF align = "center" THEN position - Half(width)
                ELSE IF align = "right" THEN position - width
                ELSE position
        right == IF align = "center" THEN position + Half(width)
                 ELSE IF align = "right" THEN position
                 ELSE position + width
        top == center_y - Half(height)
        bottom == center_y + Half(height)
    IN  [cell EXCEPT !.bbox = <<left, top, right, bottom>>]

_move_cells_to_alignment(cells, position, align, width, height) ==
    [i \in 1..Len(cells) |-> MoveCell(cells[i], position, align, width, height)]

\* the ids of the cells of a column
ColumnCellIds(table_cells, column) ==
    {table_cells[i].cell_id : i \in {j \in 1..Len(table_cells) :
                                        table_cells[j].column_id = column}}

\* pdf_ids of a column: the PDF ids with a match into one of cell_ids
ColumnPdfIds(matches, cell_ids) ==
    {ParseInt(matches[i].key) : i \in {j \in 1..Len(matches) :
        \E n \in 1..Len(matches[j].value) :
            matches[j].value[n].table_cell_id \in cell_ids}}

\* score of a column: the sum of iopdf over the matches into cell_ids
RECURSIVE ColumnScore(_, _)
ColumnScore(matches, cell_ids) ==
    IF matches = <<>> THEN <<0, 1>>
    ELSE LET into == SelectSeq(Head(matches).value,
                               LAMBDA m : m.table_cell_id \in cell_ids)
         IN  RatAdd(RatSum([n \in 1..Len(into) |-> into[n].iopdf]),
                    ColumnScore(Tail(matches), cell_ids))

\* overlap > 0.6, for overlap = intersection / size
OverThreshold_inclusive(intersection, size) == 5 * intersection >= 3 * size

OverThreshold(intersection, size) == 5 * intersection > 3 * size

\* the column that the pair (column, column + 1) marks
MarkedOfPair(matches, table_cells, column) ==
    IF RatGeq(ColumnScore(matches, ColumnCellIds(table_cells, column)),
              ColumnScore(matches, ColumnCellIds(table_cells, column + 1)))
    THEN column + 1
    ELSE column

\* columns_to_remove when a pair marks both of its columns
ColumnsToRemove_bothOfPair(columns, table_cells, matches) ==
    LET pdf_cells_per_column(column) ==
            ColumnPdfIds(matches, ColumnCellIds(table_cells, column))
        over(column) ==
            LET current == pdf_cells_per_column(column)
                nxt == pdf_cells_per_column(column + 1)
            IN  /\ current # {}
                /\ OverThreshold(Cardinality(current \cap nxt), Cardinality(current))
    IN  UNION {{column, column + 1} :
                  column \in {c \in 0..(columns - 2) : over(c)}}

\* columns_to_remove
ColumnsToRemove(columns, table_cells, matches) ==
    LET pdf_cells_per_column(column) ==
            ColumnPdfIds(matches, ColumnCellIds(table_cells, column))
        over(column) ==
            LET current == pdf_cells_per_column(column)
                nxt == pdf_cells_per_column(column + 1)
            IN  /\ current # {}
                /\ OverThreshold(Cardinality(current \cap nxt), Cardinality(current))
    IN  {MarkedOfPair(matches, table_cells, column) :
            column \in {c \in 0..(columns - 2) : over(c)}}

\* filtered_matches
RECURSIVE FilterMatches(_, _)
FilterMatches(matches, removed_ids) ==
    IF matches = <<>> THEN <<>>
    ELSE LET filtered == SelectSeq(Head(matches).value,
                                  LAMBDA m : m.table_cell_id \notin removed_ids)
             rest == FilterMatches(Tail(matches), removed_ids)
         IN  IF filtered # <<>>
             THEN <<[key |-> Head(matches).key, value |-> filtered]>> \o rest
             ELSE rest

_deduplicate_columns(columns, table_cells, matches) ==
    LET columns_to_remove == ColumnsToRemove(columns, table_cells, matches)
        removed_ids == {table_cells[i].cell_id :
                           i \in {j \in 1..Len(table_cells) :
                                     table_cells[j].column_id \in columns_to_remove}}
    IN  [cells |-> SelectSeq(table_cells,
                             LAMBDA cell : cell.column_id \notin columns_to_remove),
         matches |-> FilterMatches(matches, removed_ids),
         columns |-> columns - Cardinality(columns_to_remove)]

\* max(match_list, key=iopdf): the first of the maximal items
RECURSIVE BestMatch(_)
BestMatch(match_list) ==
    IF Len(match_list) = 1 THEN match_list[1]
    ELSE LET rest == BestMatch(Tail(match_list))
         IN  IF RatGeq(match_list[1].iopdf, rest.iopdf) THEN match_list[1] ELSE rest

_do_final_assignment_keepAll(matches) ==
    SelectSeq(matches, LAMBDA item : item.value # <<>>)

_do_final_assignment(matches) ==
    LET kept == SelectSeq(matches, LAMBDA item : item.value # <<>>)
    IN  [i \in 1..Len(kept) |->
            [key |-> kept[i].key, value |-> <<BestMatch(kept[i].value)>>]]

\* pdf_lookup: for equal ids the later cell wins
PdfLookup(pdf_cells, pdf_id) ==
    LET at == {i \in 1..Len(pdf_cells) : pdf_cells[i].id = pdf_id}
    IN  IF at = {} THEN Absent
        ELSE Some(pdf_cells[CHOOSE i \in at : \A j \in at : j <= i].bbox)

AlignCell(cell, pdf_cells, matches) ==
    LET at == {i \in 1..Len(matches) : Refers(matches[i].value, cell.cell_id)}
    IN  IF at = {} THEN cell
        ELSE LET first == CHOOSE i \in at : \A j \in at : i <= j
                 bbox == PdfLookup(pdf_cells, matches[first].key)
             IN  IF bbox = Absent THEN cell ELSE [cell EXCEPT !.bbox = Value(bbox)]

_align_table_cells_to_pdf(table_cells, pdf_cells, matches) ==
    [i \in 1..Len(table_cells) |-> AlignCell(table_cells[i], pdf_cells, matches)]

OrphanCell(cell_id, pdf_cell) ==
    [cell_id |-> cell_id, row_id |-> 0, column_id |-> 0, bbox |-> pdf_cell.bbox,
     label |-> "body", cell_class |-> 2]

\* the loop of _assign_orphan_pdf_cells from the k-th PDF cell on
RECURSIVE OrphanLoop(_, _, _, _, _, _)
OrphanLoop(pdf_cells, matched_ids, k, result_matches, result_cells, max_cell_id) ==
    IF k > Len(pdf_cells)
    THEN [matches |-> result_matches, cells |-> result_cells,
          max_cell_id |-> max_cell_id]
    ELSE IF pdf_cells[k].id \in matched_ids
    THEN OrphanLoop(pdf_cells, matched_ids, k + 1, result_matches, result_cells,
                    max_cell_id)
    ELSE OrphanLoop(pdf_cells, matched_ids, k + 1,
                    DictSet(result_matches, pdf_cells[k].id,
                            <<[table_cell_id |-> max_cell_id + 1, iopdf |-> <<1, 1>>]>>),
                    Append(result_cells, OrphanCell(max_cell_id + 1, pdf_cells[k])),
                    max_cell_id + 1)

_assign_orphan_pdf_cells_none(table_cells, pdf_cells, matches, max_cell_id) ==
    [matches |-> matches, cells |-> table_cells, max_cell_id |-> max_cell_id]

_assign_orphan_pdf_cells(table_cells, pdf_cells, matches, max_cell_id) ==
    OrphanLoop(pdf_cells, DictKeys(matches), 1, matches, table_cells, max_cell_id)

_ensure_non_overlapping(table_cells) == table_cells

\* the alignment loop of process_matching_details from a column on
RECURSIVE AdjustColumns(_, _, _, _)
AdjustColumns(table_cells, matches, column, columns) ==
    IF column >= columns THEN <<>>
    ELSE LET cells == _get_good_bad_cells_in_column(table_cells, column, matches)
             align == _find_alignment_in_column(cells.good)
             median == _median_position_and_size(cells.good, align)
             adjusted_bad_cells ==
                 _move_cells_to_alignment(cells.bad, median.position, align,
                                          median.width, median.height)
         IN  cells.good \o adjusted_bad_cells
                 \o AdjustColumns(table_cells, matches, column + 1, columns)

\* adjusted_cells.sort(key=cell_id): stable
RECURSIVE InsertById(_, _)
InsertById(sorted, cell) ==
    IF sorted = <<>> THEN <<cell>>
    ELSE IF cell.cell_id <= Head(sorted).cell_id THEN <<cell>> \o sorted
    ELSE <<Head(sorted)>> \o InsertById(Tail(sorted), cell)

RECURSIVE SortedById(_)
SortedById(cells) ==
    IF cells = <<>> THEN <<>>
    ELSE InsertById(SortedById(Tail(cells)), Head(cells))

\* process_matching_details up to the sort: the pdf cells kept, the matches
\* that classify the cells, and adjusted_cells
Adjusted(d) ==
    LET pdf_cells == _clear_pdf_cells(d.pdf_cells)
        matches == IF d.matches = <<>> /\ pdf_cells # <<>>
                   THEN _compute_intersection_matches(d.table_cells, pdf_cells)
                   ELSE d.matches
        dimension == _get_table_dimension(d.table_cells)
    IN  [pdf_cells |-> pdf_cells,
         dimension |-> dimension,
         adjusted_cells |-> SortedById(AdjustColumns(d.table_cells, matches, 0,
                                                     dimension.columns))]

process_matching_details(d) ==
    LET adjusted == Adjusted(d)
        pdf_cells == adjusted.pdf_cells
        matches == _compute_intersection_matches(adjusted.adjusted_cells, pdf_cells)
        dedup == _deduplicate_columns(adjusted.dimension.columns,
                                      adjusted.adjusted_cells, matches)
        final_matches == _do_final_assignment(dedup.matches)
        aligned_cells == _align_table_cells_to_pdf(dedup.cells, pdf_cells, final_matches)
        post == _assign_orphan_pdf_cells(aligned_cells, pdf_cells, final_matches,
                                         adjusted.dimension.max_cell_id)
    IN  [table_cells |-> _ensure_non_overlapping(post.cells),
         pdf_cells |-> pdf_cells,
         matches |-> post.matches,
         max_cell_id |-> post.max_cell_id]

\* table_lookup: for equal ids the later cell wins
TableLookup(table_cells, cell_id) ==
    LET at == {i \in 1..Len(table_cells) : table_cells[i].cell_id = cell_id}
    IN  IF at = {} THEN Absent
        ELSE Some(table_cells[CHOOSE i \in at : \A j \in at : j <= i])

\* doc_output.sort(key=int(pdf_cell_id)): stable
RECURSIVE InsertByPdfId(_, _)
InsertByPdfId(sorted, item) ==
    IF sorted = <<>> THEN <<item>>
    ELSE IF ParseInt(item.pdf_cell_id) <= ParseInt(Head(sorted).pdf_cell_id)
    THEN <<item>> \o sorted
    ELSE <<Head(sorted)>> \o InsertByPdfId(Tail(sorted), item)

RECURSIVE SortedByPdfId(_)
SortedByPdfId(items) ==
    IF items = <<>> THEN <<>>
    ELSE InsertByPdfId(SortedByPdfId(Tail(items)), Head(items))

RECURSIVE DocItems(_, _)
DocItems(table_cells, matches) ==
    IF matches = <<>> THEN <<>>
    ELSE LET match_list == Head(matches).value
             rest == DocItems(table_cells, Tail(matches))
         IN  IF match_list = <<>> THEN rest
             ELSE LET table_cell == TableLookup(table_cells, match_list[1].table_cell_id)
                  IN  IF table_cell = Absent THEN rest
                      ELSE <<[pdf_cell_id |-> Head(matches).key,
                              table_cell_id |-> match_list[1].table_cell_id,
                              bbox |-> Value(table_cell).bbox,
                              column_header |-> Value(table_cell).label = "ched",
                              row_header |-> Value(table_cell).label = "rhed",
                              row_section |-> Value(table_cell).label = "srow"]>>
                           \o rest

_generate_doc_output(table_cells, matches) ==
    SortedByPdfId(DocItems(table_cells, matches))

(***************************************************************************)
(* One sample through process_matching_details and _generate_doc_output    *)
(***************************************************************************)
MaxCells == 2
MaxPdf == 2

Scaled(bbox) == <<Unit * bbox[1], Unit * bbox[2], Unit * bbox[3], Unit * bbox[4]>>

\* where the predictor may put a cell: a bbox and the column it is given
CellShapes ==
    { [bbox |-> Scaled(<<0, 0, 2, 1>>), column_id |-> 0],
      [bbox |-> Scaled(<<2, 1, 4, 2>>), column_id |-> 0],
      [bbox |-> Scaled(<<1, 0, 4, 1>>), column_id |-> 0],
      [bbox |-> Scaled(<<1, 0, 4, 1>>), column_id |-> 1],
      [bbox |-> Scaled(<<0, 0, 2, 1>>), column_id |-> 1] }

CellChoices == [shape : CellShapes, cell_class : {1, 2}]

PdfChoices ==
    [bbox : {Scaled(<<0, 0, 2, 1>>), Scaled(<<0, 1, 2, 2>>), Scaled(<<2, 0, 4, 1>>)},
     text : {"", "t"}]

\* table cells numbered in list order
TableCellsOf(choices) ==
    [i \in 1..Len(choices) |->
        [cell_id |-> i - 1, row_id |-> i - 1,
         column_id |-> choices[i].shape.column_id,
         bbox |-> choices[i].shape.bbox, label |-> "body",
         cell_class |-> choices[i].cell_class]]

\* PDF cells with the ids "0", "1", ... in list order
PdfCellsOf(choices) ==
    [i \in 1..Len(choices) |->
        [id |-> Numerals[i], bbox |-> choices[i].bbox, text |-> choices[i].text]]

\* the matches handed in: none, one per table cell as the exporter
\* synthesizes them, or one for the first cell only
GivenMatches(kind, table_cells) ==
    LET one(i) == [key |-> Numerals[i],
                   value |-> <<[table_cell_id |-> table_cells[i].cell_id,
                                iopdf |-> <<1, 1>>]>>]
    IN  IF kind = "none" \/ table_cells = <<>> THEN <<>>
        ELSE IF kind = "first" THEN <<one(1)>>
        ELSE [i \in 1..Len(table_cells) |-> one(i)]

MatchKinds == {"none", "first", "each"}

PpIdle ==
    /\ details = None
    /\ processed = None
    /\ doc_output = None
    /\ pp_pc = "idle"

PpStart ==
    /\ \E cells \in SeqsUpTo(CellChoices, MaxCells), pdfs \in SeqsUpTo(PdfChoices, MaxPdf),
          kind \in MatchKinds :
          details = [table_cells |-> TableCellsOf(cells),
                     pdf_cells |-> PdfCellsOf(pdfs),
                     matches |-> GivenMatches(kind, TableCellsOf(cells))]
    /\ processed = None
    /\ doc_output = None
    /\ pp_pc = "start"

ProcessMatchingDetails ==
    /\ pp_pc = "start"
    /\ processed' = process_matching_details(details)
    /\ pp_pc' = "processed"
    /\ UNCHANGED <<details, doc_output, not_pp>>

GenerateDocOutput ==
    /\ pp_pc = "processed"
    /\ doc_output' = _generate_doc_output(processed.table_cells, processed.matches)
    /\ pp_pc' = "done"
    /\ UNCHANGED <<details, processed, not_pp>>

PpNext ==
    \/ ProcessMatchingDetails
    \/ GenerateDocOutput

\* a PDF cell that keeps its text and overlaps none of the given table cells
OrphanAmong(pdf_cell, table_cells) ==
    /\ pdf_cell.text # ""
    /\ \A i \in 1..Len(table_cells) :
           _bbox_intersection(table_cells[i].bbox, pdf_cell.bbox) = Absent

InputCellIds == {details.table_cells[i].cell_id : i \in 1..Len(details.table_cells)}

\* the output holds exactly one cell made for pdf_cell, with a new id above
\* every input id, matched to it alone with score 1.0, and the document
\* output, once generated, has an entry for the PDF cell
NewCellFor(pdf_cell) ==
    /\ pdf_cell.id \in DictKeys(processed.matches)
    /\ LET match_list == DictGet(processed.matches, pdf_cell.id)
           new_id == match_list[1].table_cell_id
       IN  /\ match_list = <<[table_cell_id |-> new_id, iopdf |-> <<1, 1>>]>>
           /\ \A id \in InputCellIds : new_id > id
           /\ Cardinality({i \in 1..Len(processed.table_cells) :
                              processed.table_cells[i].cell_id = new_id}) = 1
           /\ \E i \in 1..Len(processed.table_cells) :
                  /\ processed.table_cells[i].cell_id = new_id
                  /\ processed.table_cells[i].bbox = pdf_cell.bbox
    /\ pp_pc = "done" =>
           \E n \in 1..Len(doc_output) : doc_output[n].pdf_cell_id = pdf_cell.id

\* C1 as stated: a PDF cell with non-empty text that intersects no INPUT
\* table cell gets exactly one new table cell with an id above every input
\* id, the match [{new id, 1.0}], and an entry in the document output.
C1_OrphanOfInputCellsGetsNewCell ==
    pp_pc \in {"processed", "done"} =>
        \A i \in 1..Len(details.pdf_cells) :
            OrphanAmong(details.pdf_cells[i], details.table_cells)
                => NewCellFor(details.pdf_cells[i])

\* C1 amended: a PDF cell with non-empty text that intersects no table cell
\* after the column-wise alignment step gets exactly one new table cell with
\* an id above every input id, the match [{new id, 1.0}], and an entry in
\* the document output.
C1_OrphanOfAdjustedCellsGetsNewCell ==
    pp_pc \in {"processed", "done"} =>
        \A i \in 1..Len(details.pdf_cells) :
            OrphanAmong(details.pdf_cells[i], Adjusted(details).adjusted_cells)
                => NewCellFor(details.pdf_cells[i])

\* an orphan next to input table cells and a matched PDF cell, projected
C1_Witness ==
    /\ pp_pc = "done"
    /\ details.table_cells # <<>>
    /\ \E i, j \in 1..Len(details.pdf_cells) :
          /\ OrphanAmong(details.pdf_cells[i], Adjusted(details).adjusted_cells)
          /\ NewCellFor(details.pdf_cells[i])
          /\ ~OrphanAmong(details.pdf_cells[j], Adjusted(details).adjusted_cells)
          /\ details.pdf_cells[j].text # ""

OutputCellIds == {processed.table_cells[i].cell_id : i \in 1..Len(processed.table_cells)}

\* C2: every PDF cell with non-empty text has exactly one match in the
\* output, and that match refers to a table cell of the output; the output
\* matches refer to nothing else.
C2_EveryRetainedPdfCellHasOneLiveMatch ==
    pp_pc \in {"processed", "done"} =>
        /\ \A i \in 1..Len(details.pdf_cells) :
               details.pdf_cells[i].text # "" =>
                   /\ details.pdf_cells[i].id \in DictKeys(processed.matches)
                   /\ Len(DictGet(processed.matches, details.pdf_cells[i].id)) = 1
        /\ \A n \in 1..Len(processed.matches) :
               /\ Cardinality({m \in 1..Len(processed.matches) :
                                  processed.matches[m].key = processed.matches[n].key}) = 1
               /\ \A k \in 1..Len(processed.matches[n].value) :
                      processed.matches[n].value[k].table_cell_id \in OutputCellIds

\* a PDF cell over two table cells keeps the better one, and a column was
\* removed or an orphan cell added on the way
C2_Witness ==
    /\ pp_pc = "processed"
    /\ Len(details.table_cells) = 2
    /\ \E i \in 1..Len(details.pdf_cells) :
          /\ details.pdf_cells[i].text # ""
          /\ Cardinality({c \in 1..Len(Adjusted(details).adjusted_cells) :
                 _bbox_intersection(Adjusted(details).adjusted_cells[c].bbox,
                                    details.pdf_cells[i].bbox) # Absent}) = 2
          /\ Len(DictGet(processed.matches, details.pdf_cells[i].id)) = 1
    /\ OutputCellIds # InputCellIds

\* the matches by which the alignment step tells good cells from bad ones:
\* those handed in, or the intersections when none were
ClassifyingMatches ==
    LET pdf_cells == _clear_pdf_cells(details.pdf_cells)
    IN  IF details.matches = <<>> /\ pdf_cells # <<>>
        THEN _compute_intersection_matches(details.table_cells, pdf_cells)
        ELSE details.matches

IsGood(cell) == cell.cell_class > 1 /\ Matched(ClassifyingMatches, cell.cell_id)

GoodCellsOfColumn(column) ==
    SelectSeq(details.table_cells, LAMBDA cell : cell.column_id = column /\ IsGood(cell))

\* the median of a side of the good cells of a column, 0 when it has none
MedianSide(column, low, high) ==
    LET good == GoodCellsOfColumn(column)
    IN  IF good = <<>> THEN 0
        ELSE _median([i \in 1..Len(good) |-> Abs(good[i].bbox[high] - good[i].bbox[low])])

Largest(field) ==
    CHOOSE m \in {details.table_cells[i][field] : i \in 1..Len(details.table_cells)} :
        \A i \in 1..Len(details.table_cells) : details.table_cells[i][field] <= m

\* C23: for a table with cells, the dimensions used by the processing are
\* columns = largest column_id + 1 and rows = largest row_id + 1, and the
\* first id given to a synthesized cell is the largest cell_id + 1; a table
\* whose cells all have column_id 0 has 1 column.
C23_TableDimension ==
    (pp_pc \in {"processed", "done"} /\ details.table_cells # <<>>) =>
        LET dimension == Adjusted(details).dimension
        IN  /\ dimension.columns = Largest("column_id") + 1
            /\ dimension.rows = Largest("row_id") + 1
            /\ dimension.max_cell_id + 1 = Largest("cell_id") + 1

\* the cell of adjusted_cells with the id of an input cell
AdjustedCell(adjusted, cell) ==
    adjusted[CHOOSE j \in 1..Len(adjusted) : adjusted[j].cell_id = cell.cell_id]

\* the matches recomputed from adjusted_cells after the alignment step
RecomputedMatches ==
    _compute_intersection_matches(Adjusted(details).adjusted_cells,
                                  Adjusted(details).pdf_cells)

\* C28: in a column without a good cell the alignment step gives every cell
\* the bbox [0, cy, 0, cy], cy being the cell's own vertical center; the
\* cell then intersects no PDF cell and no recomputed match refers to it.
C28_ColumnWithoutGoodCellCollapses ==
    pp_pc \in {"processed", "done"} =>
        LET adjusted == Adjusted(details).adjusted_cells
            recomputed == RecomputedMatches
        IN  \A i \in 1..Len(details.table_cells) :
                LET cell == details.table_cells[i]
                    cy == Half(cell.bbox[2] + cell.bbox[4])
                    moved == AdjustedCell(adjusted, cell)
                IN  GoodCellsOfColumn(cell.column_id) = <<>> =>
                        /\ moved.bbox = <<0, cy, 0, cy>>
                        /\ \A k \in 1..Len(details.pdf_cells) :
                               _bbox_intersection(moved.bbox,
                                                  details.pdf_cells[k].bbox) = Absent
                        /\ ~Matched(recomputed, cell.cell_id)

\* a cell of class 2 lies over a PDF cell with text but no given match
\* refers to it; its column has no good cell, it collapses, and the PDF
\* cell it covered is left to a synthesized cell
C28_Witness ==
    /\ pp_pc = "processed"
    /\ Len(details.table_cells) = 2
    /\ details.table_cells[2].cell_class = 2
    /\ details.table_cells[1].column_id # details.table_cells[2].column_id
    /\ GoodCellsOfColumn(details.table_cells[2].column_id) = <<>>
    /\ IsGood(details.table_cells[1])
    /\ \E k \in 1..Len(details.pdf_cells) :
          /\ details.pdf_cells[k].text # ""
          /\ _bbox_intersection(details.table_cells[2].bbox,
                                details.pdf_cells[k].bbox) # Absent
    /\ AdjustedCell(Adjusted(details).adjusted_cells, details.table_cells[2]).bbox
          # details.table_cells[2].bbox
    /\ ~Matched(RecomputedMatches, details.table_cells[2].cell_id)

(***************************************************************************)
(* _deduplicate_columns on its own: three columns, the PDF cells "0", "1", *)
(* ... each with up to two matches.  Which PDF cell carries which match    *)
(* list does not matter to the function, so the lists are drawn in         *)
(* non-decreasing order of their number.                                   *)
(***************************************************************************)
MaxDedupPdf == 5

DedupTable ==
    << [cell_id |-> 0, row_id |-> 0, column_id |-> 0, bbox |-> Scaled(<<0, 0, 1, 1>>),
        label |-> "body", cell_class |-> 2],
       [cell_id |-> 1, row_id |-> 0, column_id |-> 1, bbox |-> Scaled(<<0, 0, 1, 1>>),
        label |-> "body", cell_class |-> 2],
       [cell_id |-> 2, row_id |-> 0, column_id |-> 2, bbox |-> Scaled(<<0, 0, 1, 1>>),
        label |-> "body", cell_class |-> 2],
       [cell_id |-> 3, row_id |-> 1, column_id |-> 1, bbox |-> Scaled(<<0, 1, 1, 2>>),
        label |-> "body", cell_class |-> 2] >>

\* the table, and the same with no cell in column 1
DedupTables ==
    {DedupTable, SelectSeq(DedupTable, LAMBDA cell : cell.column_id # 1)}

CellPairs == << <<0, 1>>, <<0, 2>>, <<1, 2>> >>

Match(cell_id, num, den) == [table_cell_id |-> cell_id, iopdf |-> <<num, den>>]

\* the n-th match list, 0 <= n <= LastMatchList: the empty one, the six with
\* one match (iopdf 1/2 or 1), and for each pair of cells three with two
\* matches, ordered by descending iopdf
MatchListAt(n) ==
    IF n = 0 THEN <<>>
    ELSE IF n <= 6
    THEN << Match((n - 1) \div 2, 1, IF (n - 1) % 2 = 0 THEN 2 ELSE 1) >>
    ELSE LET pair == CellPairs[((n - 7) \div 3) + 1]
             form == (n - 7) % 3
         IN  IF form = 0 THEN << Match(pair[1], 1, 1), Match(pair[2], 1, 1) >>
             ELSE IF form = 1 THEN << Match(pair[1], 1, 1), Match(pair[2], 1, 2) >>
             ELSE << Match(pair[2], 1, 1), Match(pair[1], 1, 2) >>

LastMatchList == 6 + 3 * Len(CellPairs)

RECURSIVE NonDecreasing(_)
NonDecreasing(n) ==
    IF n = 0 THEN {<<>>}
    ELSE UNION { {Append(q, x) : x \in (IF q = <<>> THEN 0 ELSE q[Len(q)])..LastMatchList}
                 : q \in NonDecreasing(n - 1) }

\* the matches dict of the chosen lists, without the empty ones
RECURSIVE MatchesOf(_, _)
MatchesOf(choice, i) ==
    IF i > Len(choice) THEN <<>>
    ELSE IF choice[i] = 0 THEN MatchesOf(choice, i + 1)
    ELSE <<[key |-> Numerals[i], value |-> MatchListAt(choice[i])]>>
             \o MatchesOf(choice, i + 1)

DedupIdle ==
    /\ tab_columns = 0
    /\ dedup_cells_in = <<>>
    /\ dedup_matches_in = <<>>
    /\ dedup_out = None
    /\ dedup_pc = "idle"

DedupStart ==
    /\ tab_columns = 3
    /\ dedup_cells_in \in DedupTables
    /\ \E choice \in NonDecreasing(MaxDedupPdf) : dedup_matches_in = MatchesOf(choice, 1)
    /\ dedup_out = None
    /\ dedup_pc = "start"

DeduplicateColumns ==
    /\ dedup_pc = "start"
    /\ dedup_out' = _deduplicate_columns(tab_columns, dedup_cells_in, dedup_matches_in)
    /\ dedup_pc' = "done"
    /\ UNCHANGED <<tab_columns, dedup_cells_in, dedup_matches_in, not_dedup>>

DedupNext == DeduplicateColumns

\* the PDF cells matched into a column of the input, and the column's score
InputIds(column) ==
    {dedup_matches_in[i].key : i \in {j \in 1..Len(dedup_matches_in) :
        \E n \in 1..Len(dedup_matches_in[j].value) :
            \E c \in 1..Len(dedup_cells_in) :
                /\ dedup_cells_in[c].column_id = column
                /\ dedup_cells_in[c].cell_id = dedup_matches_in[j].value[n].table_cell_id}}

InputScore(column) == ColumnScore(dedup_matches_in, ColumnCellIds(dedup_cells_in, column))

\* more than 60% of the PDF cells of column are PDF cells of column + 1
OverlapAbove60(column) ==
    /\ InputIds(column) # {}
    /\ 5 * Cardinality(InputIds(column) \cap InputIds(column + 1))
           > 3 * Cardinality(InputIds(column))

OverlapExactly60(column) ==
    /\ InputIds(column) # {}
    /\ 5 * Cardinality(InputIds(column) \cap InputIds(column + 1))
           = 3 * Cardinality(InputIds(column))

\* the column of the pair (column, column + 1) with the lower score, the
\* later one on equal scores
LoserOf(column) ==
    IF RatLess(InputScore(column), InputScore(column + 1)) THEN column ELSE column + 1

ExpectedRemoved == {LoserOf(c) : c \in {k \in 0..(tab_columns - 2) : OverlapAbove60(k)}}

RemovedCellIds ==
    {dedup_cells_in[i].cell_id : i \in {j \in 1..Len(dedup_cells_in) :
                                          dedup_cells_in[j].column_id \in ExpectedRemoved}}

\* C3: a column is removed exactly when it is the lower-scoring column (the
\* later one on a tie) of an adjacent pair whose overlap is strictly above
\* 0.6; the cells of removed columns and the matches into them are dropped,
\* everything else is kept.
C3_DeduplicateColumns ==
    dedup_pc = "done" =>
        LET removed == ExpectedRemoved
            removed_ids == RemovedCellIds
        IN  /\ dedup_out.cells =
                   SelectSeq(dedup_cells_in, LAMBDA cell : cell.column_id \notin removed)
            /\ \A i \in 1..Len(dedup_out.matches) :
                   \A n \in 1..Len(dedup_out.matches[i].value) :
                       dedup_out.matches[i].value[n].table_cell_id \notin removed_ids
            /\ \A i \in 1..Len(dedup_matches_in) :
                   \A n \in 1..Len(dedup_matches_in[i].value) :
                       dedup_matches_in[i].value[n].table_cell_id \notin removed_ids =>
                           /\ dedup_matches_in[i].key \in DictKeys(dedup_out.matches)
                           /\ \E k \in 1..Len(DictGet(dedup_out.matches,
                                                        dedup_matches_in[i].key)) :
                                  DictGet(dedup_out.matches, dedup_matches_in[i].key)[k]
                                      = dedup_matches_in[i].value[n]

\* columns 1 and 2 overlap at exactly 60% and both stay, while column 0
\* lies within column 1 and goes as the lower-scoring one
C3_Witness ==
    /\ dedup_pc = "done"
    /\ OverlapExactly60(1)
    /\ OverlapAbove60(0)
    /\ RatLess(InputScore(0), InputScore(1))
    /\ \A i \in 1..Len(dedup_out.cells) : dedup_out.cells[i].column_id \in {1, 2}
    /\ Len(dedup_out.cells) = 3
    /\ dedup_out.matches # dedup_matches_in

\* the columns of the input that lose their cells
RemovedColumns ==
    {column \in 0..(tab_columns - 1) :
        /\ \E i \in 1..Len(dedup_cells_in) : dedup_cells_in[i].column_id = column
        /\ \A i \in 1..Len(dedup_out.cells) : dedup_out.cells[i].column_id # column}

\* C29: a removed column has a non-empty set of matched PDF cells and
\* belongs to an adjacent pair whose overlap is above 0.6, there are no more
\* removed columns than such pairs, and a table with a cell keeps a cell.
C29_NeverEmptiesTheTable ==
    dedup_pc = "done" =>
        /\ \A column \in RemovedColumns :
               /\ InputIds(column) # {}
               /\ \/ column <= tab_columns - 2 /\ OverlapAbove60(column)
                  \/ column >= 1 /\ OverlapAbove60(column - 1)
        /\ Cardinality(RemovedColumns)
               <= Cardinality({k \in 0..(tab_columns - 2) : OverlapAbove60(k)})
        /\ dedup_out.columns >= 1
        /\ dedup_cells_in # <<>> => dedup_out.cells # <<>>

\* two of the three columns were removed and the cells of the third kept
C29_Witness ==
    /\ dedup_pc = "done"
    /\ Cardinality(RemovedColumns) = 2
    /\ dedup_out.cells # <<>>
    /\ Len(dedup_out.cells) < Len(dedup_cells_in)

\* the table has no cell in column 1; columns 0 and 2 are matched by the
\* same PDF cells, are not adjacent, and both stay
C29_WitnessEmptyColumn ==
    /\ dedup_pc = "done"
    /\ \A i \in 1..Len(dedup_cells_in) : dedup_cells_in[i].column_id # 1
    /\ InputIds(0) # {}
    /\ InputIds(0) = InputIds(2)
    /\ RemovedColumns = {}
    /\ dedup_out.cells = dedup_cells_in

(***************************************************************************)
(* _find_alignment_in_column on its own                                    *)
(***************************************************************************)
MaxColumnCells == 3

AlignBoxes ==
    {Scaled(<<x0, 0, x1, 1>>) : x0 \in 0..2, x1 \in 1..4} \
        {b \in {Scaled(<<x0, 0, x1, 1>>) : x0 \in 0..2, x1 \in 1..4} : b[3] <= b[1]}

AlignCells ==
    {[cell_id |-> 0, row_id |-> 0, column_id |-> 0, bbox |-> b, label |-> "body",
      cell_class |-> 2] : b \in AlignBoxes}

AlignIdle ==
    /\ column_cells = <<>>
    /\ alignment = None
    /\ align_pc = "idle"

AlignStart ==
    /\ column_cells \in SeqsUpTo(AlignCells, MaxColumnCells)
    /\ alignment = None
    /\ align_pc = "start"

FindAlignmentInColumn ==
    /\ align_pc = "start"
    /\ alignment' = _find_alignment_in_column(column_cells)
    /\ align_pc' = "done"
    /\ UNCHANGED <<column_cells, not_align>>

AlignNext == FindAlignmentInColumn

Spread(align) == _alignment_range(column_cells, align)

\* C4: for a non-empty column the result is right if the right spread is
\* strictly below both others, else center if the center spread is strictly
\* below the left one, else left; the chosen spread is the smallest.
C4_SmallestSpreadLeftCenterRight ==
    (align_pc = "done" /\ column_cells # <<>>) =>
        /\ alignment = (IF Spread("right") < Spread("left") /\ Spread("right") < Spread("center")
                        THEN "right"
                        ELSE IF Spread("center") < Spread("left") THEN "center"
                        ELSE "left")
        /\ \A align \in {"left", "center", "right"} : Spread(alignment) <= Spread(align)

\* three equal, non-zero spreads give left
C4_Witness ==
    /\ align_pc = "done"
    /\ Len(column_cells) >= 2
    /\ Spread("left") > 0
    /\ Spread("left") = Spread("center")
    /\ Spread("center") = Spread("right")
    /\ alignment = "left"

(***************************************************************************)
(* convert_to_onnx.convert: the export, then four stages, each in its own  *)
(* try block.  A stage may fail before or after it has written its file.   *)
(***************************************************************************)
Stages == <<"simplify", "quantize_dynamic", "fp16", "quantize_static">>

\* the file a stage writes, and what it prints when it fails
StageFile(stage) ==
    IF stage = "simplify" THEN "output_path"
    ELSE IF stage = "quantize_dynamic" THEN "quantized_path"
    ELSE IF stage = "fp16" THEN "fp16_path"
    ELSE "static_quant_path"

FailureMessage(stage) ==
    IF stage = "simplify" THEN "ONNX simplification failed"
    ELSE IF stage = "quantize_dynamic" THEN "Quantization failed"
    ELSE IF stage = "fp16" THEN "FP16 conversion failed"
    ELSE "Static quantization failed"

SavedMessage(stage) ==
    IF stage = "simplify" THEN "Simplified model saved"
    ELSE IF stage = "quantize_dynamic" THEN "Saved quantized model"
    ELSE IF stage = "fp16" THEN "Saved float16 model"
    ELSE "Saved static int8 model"

\* how a stage ends: it saves and prints, it fails before or after its file
\* is written, or (simplify only) the check is negative and nothing is saved
StageOutcomes(stage) ==
    {"saved", "raised_before_write", "raised_after_write"}
        \cup (IF stage = "simplify" THEN {"unchecked"} ELSE {})

Raised(outcome) == outcome \in {"raised_before_write", "raised_after_write"}

\* except Exception as e
Caught_nothing(outcome) == FALSE

Caught(outcome) == Raised(outcome)

CvIdle ==
    /\ cv_pc = "idle"
    /\ cv_attempts = <<>>
    /\ cv_log = <<>>
    /\ cv_files = {}

CvStart ==
    /\ cv_pc = "export"
    /\ cv_attempts = <<>>
    /\ cv_log = <<>>
    /\ cv_files = {}

\* from_pretrained, torch.onnx.export and the first size report, outside any
\* try block
Export ==
    /\ cv_pc = "export"
    /\ \E ok \in BOOLEAN :
          IF ok
          THEN /\ cv_files' = {"output_path"}
               /\ cv_log' = <<"Saved ONNX model">>
               /\ cv_pc' = Stages[1]
          ELSE /\ cv_pc' = "raised"
               /\ UNCHANGED <<cv_files, cv_log>>
    /\ UNCHANGED <<cv_attempts, not_cv>>

\* where convert stands after the n-th stage
After(n, outcome) ==
    IF Raised(outcome) /\ ~Caught(outcome) THEN "raised"
    ELSE IF n < Len(Stages) THEN Stages[n + 1]
    ELSE "return"

\* the n-th try block
Stage(n) ==
    /\ \E outcome \in StageOutcomes(Stages[n]) :
          /\ cv_attempts' = Append(cv_attempts, [stage |-> Stages[n], outcome |-> outcome])
          /\ cv_files' = IF outcome \in {"saved", "raised_after_write"}
                         THEN cv_files \cup {StageFile(Stages[n])}
                         ELSE cv_files
          /\ cv_log' = IF outcome = "saved" THEN Append(cv_log, SavedMessage(Stages[n]))
                       ELSE IF Caught(outcome)
                       THEN Append(cv_log, FailureMessage(Stages[n]))
                       ELSE cv_log
          /\ cv_pc' = After(n, outcome)
    /\ UNCHANGED not_cv

Simplify == cv_pc = "simplify" /\ Stage(1)

QuantizeDynamic == cv_pc = "quantize_dynamic" /\ Stage(2)

ConvertFloat16 == cv_pc = "fp16" /\ Stage(3)

QuantizeStatic == cv_pc = "quantize_static" /\ Stage(4)

\* return None
Return ==
    /\ cv_pc = "return"
    /\ cv_pc' = "returned"
    /\ UNCHANGED <<cv_attempts, cv_log, cv_files, not_cv>>

CvNext ==
    \/ Export
    \/ Simplify
    \/ QuantizeDynamic
    \/ ConvertFloat16
    \/ QuantizeStatic
    \/ Return

Printed(message) == \E n \in 1..Len(cv_log) : cv_log[n] = message

Failed == {n \in 1..Len(cv_attempts) : Raised(cv_attempts[n].outcome)}

\* C13: after a successful export the stages are attempted once each and in
\* order whatever fails: what has been attempted is always an initial part
\* of the four stages, every failure among it has been reported, convert
\* only raises out of the export, and when it returns all four stages have
\* been attempted.
C13_EveryStageAttemptedOnce ==
    /\ Len(cv_attempts) <= Len(Stages)
    /\ \A n \in 1..Len(cv_attempts) : cv_attempts[n].stage = Stages[n]
    /\ \A n \in Failed : Printed(FailureMessage(Stages[n]))
    /\ \A n \in 1..Len(Stages) : cv_pc = Stages[n] => Len(cv_attempts) = n - 1
    /\ cv_pc = "raised" => cv_attempts = <<>>
    /\ cv_pc \in {"return", "returned"} => Len(cv_attempts) = Len(Stages)

\* all four stages failed and convert returned
C13_Witness ==
    /\ cv_pc = "returned"
    /\ Failed = 1..Len(Stages)
    /\ \A n \in Failed : Printed(FailureMessage(Stages[n]))

(***************************************************************************)
(* JSON values and json.dumps.  A value is [atom |-> a] for null, a number *)
(* or a string, [list |-> items], or [dict |-> items] with the items       *)
(* [key, value] in insertion order.  A text is the sequence of its tokens. *)
(***************************************************************************)
Null == [atom |-> "null"]

IsAtom(v) == DOMAIN v = {"atom"}
IsList(v) == DOMAIN v = {"list"}
IsDict(v) == DOMAIN v = {"dict"}

\* the keys in use, in the order Python sorts strings
SortedKeys == <<"a.png", "b.png", "model", "num_tables", "predict", "tables">>

KeyRank(key) == CHOOSE i \in 1..Len(SortedKeys) : SortedKeys[i] = key

\* sorted(items) by key
RECURSIVE InsertByKey(_, _)
InsertByKey(sorted, item) ==
    IF sorted = <<>> THEN <<item>>
    ELSE IF KeyRank(item.key) < KeyRank(Head(sorted).key) THEN <<item>> \o sorted
    ELSE <<Head(sorted)>> \o InsertByKey(Tail(sorted), item)

RECURSIVE SortedByKey(_)
SortedByKey(items) ==
    IF items = <<>> THEN <<>>
    ELSE InsertByKey(SortedByKey(Tail(items)), Head(items))

\* the text of an atom: only the string "caf\u00e9" has a character that
\* ensure_ascii escapes
AtomText(a, ensure_ascii) ==
    IF a = "cafe-acute"
    THEN (IF ensure_ascii THEN "\"caf\\u00e9\"" ELSE "\"cafe-acute\"")
    ELSE a

\* json.dumps(value, sort_keys=..., ensure_ascii=..., separators=(",", ":"))
RECURSIVE dumps(_, _, _)
RECURSIVE DumpItems(_, _, _, _)
DumpItems(items, as_dict, sort_keys, ensure_ascii) ==
    IF items = <<>> THEN <<>>
    ELSE (IF as_dict
          THEN <<Head(items).key, ":">> \o dumps(Head(items).value, sort_keys, ensure_ascii)
          ELSE dumps(Head(items), sort_keys, ensure_ascii))
         \o (IF Tail(items) = <<>> THEN <<>> ELSE <<",">>)
         \o DumpItems(Tail(items), as_dict, sort_keys, ensure_ascii)

dumps(value, sort_keys, ensure_ascii) ==
    IF IsAtom(value) THEN <<AtomText(value.atom, ensure_ascii)>>
    ELSE IF IsList(value)
    THEN <<"[">> \o DumpItems(value.list, FALSE, sort_keys, ensure_ascii) \o <<"]">>
    ELSE <<"{">>
         \o DumpItems(IF sort_keys THEN SortedByKey(value.dict) ELSE value.dict,
                      TRUE, sort_keys, ensure_ascii)
         \o <<"}">>

\* equality of Python values: lists are equal item by item, mappings when
\* they have the same keys with equal values, whatever the insertion order
RECURSIVE SameData(_, _)
SameData(x, y) ==
    IF IsAtom(x) THEN x = y
    ELSE IF IsList(x)
    THEN /\ IsList(y)
         /\ Len(x.list) = Len(y.list)
         /\ \A i \in 1..Len(x.list) : SameData(x.list[i], y.list[i])
    ELSE /\ IsDict(y)
         /\ Len(x.dict) = Len(y.dict)
         /\ \A i \in 1..Len(x.dict) : \E j \in 1..Len(y.dict) :
               /\ x.dict[i].key = y.dict[j].key
               /\ SameData(x.dict[i].value, y.dict[j].value)

(***************************************************************************)
(* scripts/benchmark_docling_python.main                                   *)
(***************************************************************************)
Dict(items) == [dict |-> items]
Item(key, value) == [key |-> key, value |-> value]
Number(text) == [atom |-> text]

\* what predict_page can return for a page: no table, or one
TablePredictions ==
    {Dict(<<Item("num_tables", Number("0")), Item("tables", [list |-> <<>>])>>),
     Dict(<<Item("num_tables", Number("1")), Item("tables", [list |-> <<Number("1")>>])>>)}

Reversed(seq) == [i \in 1..Len(seq) |-> seq[Len(seq) + 1 - i]]

\* the same, as a reference file may hold them: the keys in either order
ReferenceTables == TablePredictions \cup {Dict(Reversed(t.dict)) : t \in TablePredictions}

\* sorted(dataset_dir.glob("*.png"))
ImageLists == {<<>>, <<"a.png">>, <<"b.png">>, <<"a.png", "b.png">>}

\* the contents a reference file can have: null, or a mapping of image
\* names in any order
ReferenceContents ==
    {Null} \cup
    {Dict([i \in 1..Len(names) |-> Item(names[i], tables[i])]) :
        names \in ImageLists \cup {<<"b.png", "a.png">>},
        tables \in [1..2 -> ReferenceTables]}

canonical_json(data) == dumps(data, TRUE, FALSE)

BdIdle ==
    /\ bd_images = <<>>
    /\ bd_reference = Absent
    /\ bd_skip_reference_check = FALSE
    /\ bd_predictions = Null
    /\ bd_reference_data = Null
    /\ bd_report = Absent
    /\ bd_exit = None
    /\ bd_pc = "idle"

BdStart ==
    /\ bd_images \in ImageLists
    /\ bd_reference \in {Absent} \cup {Some(c) : c \in ReferenceContents}
    /\ bd_skip_reference_check \in BOOLEAN
    /\ bd_predictions = Null
    /\ bd_reference_data = Null
    /\ bd_report = Absent
    /\ bd_exit = None
    /\ bd_pc = "run_benchmark"

\* run_benchmark: one prediction per image, in the order of the names
RunBenchmark ==
    /\ bd_pc = "run_benchmark"
    /\ IF bd_images = <<>>
       THEN /\ bd_exit' = "FileNotFoundError"
            /\ bd_pc' = "exited"
            /\ UNCHANGED bd_predictions
       ELSE /\ \E tables \in [1..Len(bd_images) -> TablePredictions] :
                  bd_predictions' =
                      Dict([i \in 1..Len(bd_images) |-> Item(bd_images[i], tables[i])])
            /\ bd_pc' = "load_reference"
            /\ UNCHANGED bd_exit
    /\ UNCHANGED <<bd_images, bd_reference, bd_skip_reference_check, bd_reference_data,
                   bd_report, not_bd>>

\* reference_data = None; if args.reference.exists(): json.loads(...)
LoadReference ==
    /\ bd_pc = "load_reference"
    /\ bd_reference_data' = IF bd_reference # Absent THEN Value(bd_reference) ELSE Null
    /\ bd_pc' = "check_reference"
    /\ UNCHANGED <<bd_images, bd_reference, bd_skip_reference_check, bd_predictions,
                   bd_report, bd_exit, not_bd>>

\* if reference_data is not None
reference_loaded == bd_reference_data # Null

CheckReference ==
    /\ bd_pc = "check_reference"
    /\ IF /\ reference_loaded
          /\ canonical_json(bd_predictions) # canonical_json(bd_reference_data)
          /\ ~bd_skip_reference_check
       THEN bd_exit' = "SystemExit: diverges" /\ bd_pc' = "exited"
       ELSE bd_exit' = bd_exit /\ bd_pc' = "write_report"
    /\ UNCHANGED <<bd_images, bd_reference, bd_skip_reference_check, bd_predictions,
                   bd_reference_data, bd_report, not_bd>>

\* args.output.write_text(json.dumps(benchmark.to_serializable(), ...))
WriteReport ==
    /\ bd_pc = "write_report"
    /\ bd_report' = Some(Dict(<<Item("predictions", bd_predictions)>>))
    /\ bd_exit' = "0"
    /\ bd_pc' = "exited"
    /\ UNCHANGED <<bd_images, bd_reference, bd_skip_reference_check, bd_predictions,
                   bd_reference_data, not_bd>>

BdNext ==
    \/ RunBenchmark
    \/ LoadReference
    \/ CheckReference
    \/ WriteReport

\* the reference file exists and its canonical JSON is not that of the
\* predictions
ReferenceDiffers ==
    /\ bd_reference # Absent
    /\ canonical_json(bd_predictions) # canonical_json(Value(bd_reference))

\* C15: once the predictions are computed, main ends with the fatal error
\* exactly when the reference file exists, its canonical JSON differs from
\* that of the predictions and the check is not skipped, and then no report
\* is written; in every other case the report is written and main returns 0.
C15_FatalExactlyOnDivergence ==
    (bd_pc = "exited" /\ bd_predictions # Null) =>
        IF ReferenceDiffers /\ ~bd_skip_reference_check
        THEN bd_exit = "SystemExit: diverges" /\ bd_report = Absent
        ELSE bd_exit = "0" /\ bd_report # Absent

(***************************************************************************)
(* timings.csv: infer_baseline, infer_onnx, validate_quality.run_model and *)
(* the three benchmark runners write it, compare_kpi.load_timings reads    *)
(* it.  A timing is a number of 1/10000 ms; a line of the file is the      *)
(* sequence of its comma-separated parts.                                  *)
(***************************************************************************)
MaxTimedImages == 2
MaxRuns == 2

Producers == {"infer_baseline", "infer_onnx", "run_model",
              "bench_python", "bench_openvino", "bench_python_openvino"}

TimedImages == <<"a.png", "b.png", "c.png", "d.png">>

Elapsed == {10004, 10006}

\* f"{dt:.3f}" on the timings in use: rounded to thousandths of a ms
Format3(dt) == IF (dt + 5) \div 10 = 1000 THEN "1.000" ELSE "1.001"

\* the text csv.DictWriter writes for a float: all its digits
Unrounded(dt) == IF dt = 10004 THEN "1.0004" ELSE "1.0006"

\* float() of the text of a timing
Float(text) ==
    CASE text = "1.000" -> 10000
      [] text = "1.001" -> 10010
      [] text = "1.0004" -> 10004
      [] text = "1.0006" -> 10006

HeaderLine == <<"filename", "ms">>

TmIdle ==
    /\ tm_producer = None
    /\ tm_images = <<>>
    /\ tm_runs_per_image = 0
    /\ tm_synthetic = FALSE
    /\ timings = <<>>
    /\ tm_csv = Absent
    /\ tm_count = Absent
    /\ tm_loaded = Absent
    /\ tm_pc = "idle"

\* only bench_python_openvino has --synthetic, only the runners have
\* --runs-per-image
TmStart ==
    /\ tm_producer \in Producers
    /\ \E n \in 0..MaxTimedImages : tm_images = SubSeq(TimedImages, 1, n)
    /\ tm_runs_per_image \in 1..MaxRuns
    /\ tm_producer \notin {"bench_python", "bench_openvino", "bench_python_openvino"}
           => tm_runs_per_image = 1
    /\ tm_synthetic \in BOOLEAN
    /\ tm_synthetic => tm_producer = "bench_python_openvino" /\ tm_images = <<>>
    /\ timings = <<>>
    /\ tm_csv = Absent
    /\ tm_count = Absent
    /\ tm_loaded = Absent
    /\ tm_pc = "run"

\* one line per timing: the file name and the formatted timing
Rows(names, dts, rounded) ==
    [i \in 1..Len(dts) |->
        <<names[i], IF rounded THEN Format3(dts[i]) ELSE Unrounded(dts[i])>>]

\* the producer runs over names, measures dts and writes the file, with or
\* without the header, the timings rounded or not, and reports count
Produce(names, dts, header, rounded, count) ==
    /\ timings' = dts
    /\ tm_csv' = Some((IF header THEN <<HeaderLine>> ELSE <<>>) \o Rows(names, dts, rounded))
    /\ tm_count' = count
    /\ tm_pc' = "written"
    /\ UNCHANGED <<tm_producer, tm_images, tm_runs_per_image, tm_synthetic, tm_loaded, not_tm>>

\* infer_baseline.main and infer_onnx.main: csv.DictWriter with writeheader
InferBaseline ==
    /\ tm_pc = "run" /\ tm_producer = "infer_baseline"
    /\ \E dts \in [1..Len(tm_images) -> Elapsed] :
          Produce(tm_images, dts, TRUE, FALSE, Some(Len(dts)))

InferOnnx ==
    /\ tm_pc = "run" /\ tm_producer = "infer_onnx"
    /\ \E dts \in [1..Len(tm_images) -> Elapsed] :
          Produce(tm_images, dts, TRUE, FALSE, Some(Len(dts)))

\* validate_quality.run_model: f.write(f"{name},{ms:.3f}\n") per timing
RunModel ==
    /\ tm_pc = "run" /\ tm_producer = "run_model"
    /\ \E dts \in [1..Len(tm_images) -> Elapsed] :
          Produce(tm_images, dts, FALSE, TRUE, Absent)

\* each name runs times over
Repeated(names, runs) == [i \in 1..(Len(names) * runs) |-> names[((i - 1) \div runs) + 1]]

\* bench_python and bench_openvino: for pth in (files or ["__synthetic__"]),
\* a row and a timing per run
RowPerRun ==
    LET files == IF tm_images # <<>> THEN tm_images ELSE <<"__synthetic__">>
        names == Repeated(files, tm_runs_per_image)
    IN  \E dts \in [1..Len(names) -> Elapsed] :
            Produce(names, dts, TRUE, TRUE, Some(Len(dts)))

BenchPython == tm_pc = "run" /\ tm_producer = "bench_python" /\ RowPerRun

BenchOpenvino == tm_pc = "run" /\ tm_producer = "bench_openvino" /\ RowPerRun

\* bench_python_openvino.main: one row per image with the mean of its runs
BenchPythonOpenvino ==
    /\ tm_pc = "run" /\ tm_producer = "bench_python_openvino"
    /\ LET images == IF tm_synthetic THEN <<"synthetic">> ELSE tm_images
       IN  \E dts \in [1..Len(images) -> Elapsed] :
               Produce(images, dts, TRUE, TRUE, Some(Len(dts)))

\* compare_kpi.load_timings: next(f), then float(parts[1]) of every line of
\* two parts
load_timings(lines) ==
    IF lines = <<>> THEN [raised |-> "StopIteration"]
    ELSE LET rest == SelectSeq(Tail(lines), LAMBDA parts : Len(parts) = 2)
         IN  [times |-> [i \in 1..Len(rest) |-> Float(rest[i][2])]]

LoadTimings ==
    /\ tm_pc = "written"
    /\ tm_loaded' = Some(load_timings(Value(tm_csv)))
    /\ tm_pc' = "loaded"
    /\ UNCHANGED <<tm_producer, tm_images, tm_runs_per_image, tm_synthetic, timings,
                   tm_csv, tm_count, not_tm>>

TmNext ==
    \/ InferBaseline
    \/ InferOnnx
    \/ RunModel
    \/ BenchPython
    \/ BenchOpenvino
    \/ BenchPythonOpenvino
    \/ LoadTimings

\* C16: every timings.csv written starts with the header line filename,ms,
\* and load_timings gets one value per timing the producer recorded.
C16_HeaderFirstAndNoTimingLost ==
    /\ tm_csv # Absent =>
           Value(tm_csv) # <<>> /\ Value(tm_csv)[1] = HeaderLine
    /\ tm_pc = "loaded" =>
           /\ DOMAIN Value(tm_loaded) = {"times"}
           /\ Len(Value(tm_loaded).times) = Len(timings)

\* the lines after the first
DataRows == Tail(Value(tm_csv))

\* C17: the timings.csv of a benchmark runner has one data row per input
\* image and summary.json's count is the number of images, whatever
\* --runs-per-image is.
C17_OneRowPerImage ==
    (tm_csv # Absent
        /\ tm_producer \in {"bench_python", "bench_openvino", "bench_python_openvino"}
        /\ ~tm_synthetic) =>
        /\ Len(DataRows) = Len(tm_images)
        /\ tm_count = Some(Len(tm_images))

(***************************************************************************)
(* The canonical-JSON routines: scripts/hash_tableformer_config            *)
(* (_canonicalize, then json.dumps without sort_keys) and                  *)
(* scripts/export_tableformer_post_processing (json.dumps with sort_keys). *)
(* hashlib.sha256 is a function of the bytes it is given and is left       *)
(* uninterpreted.                                                          *)
(***************************************************************************)
MaxDepth == 2

Atoms == {Number("1"), [atom |-> "cafe-acute"]}

Keys == {"model", "predict"}

KeyPairs == {kl \in Keys \X Keys : kl[1] # kl[2]}

\* the payloads nested depth deep: an atom, a list or a mapping of at most
\* two items of which one may be nested, the keys in either order
RECURSIVE Payloads(_)
Payloads(depth) ==
    IF depth = 0 THEN Atoms
    ELSE LET inner == Payloads(depth - 1)
         IN  inner
             \cup {[list |-> <<>>], Dict(<<>>)}
             \cup {[list |-> <<v>>] : v \in inner}
             \cup {[list |-> <<v, a>>] : v \in inner, a \in Atoms}
             \cup {[list |-> <<a, v>>] : v \in inner, a \in Atoms}
             \cup {Dict(<<Item(k, v)>>) : k \in Keys, v \in inner}
             \cup {Dict(<<Item(kl[1], v), Item(kl[2], a)>>) :
                      kl \in KeyPairs, v \in inner, a \in Atoms}
             \cup {Dict(<<Item(kl[2], a), Item(kl[1], v)>>) :
                      kl \in KeyPairs, v \in inner, a \in Atoms}

\* the values built like value but with the items of its mappings
\* (of_dicts) or of its lists (otherwise) put in another order, at any depth
RECURSIVE Variants(_, _)
Variants(value, of_dicts) ==
    IF IsAtom(value) THEN {value}
    ELSE LET items == IF IsList(value) THEN value.list ELSE value.dict
             n == Len(items)
             inner(i) ==
                 IF IsList(value) THEN Variants(items[i], of_dicts)
                 ELSE {Item(items[i].key, w) : w \in Variants(items[i].value, of_dicts)}
             choices == {f \in [1..n -> UNION {inner(i) : i \in 1..n}] :
                            \A i \in 1..n : f[i] \in inner(i)}
             perms == IF IsDict(value) = of_dicts THEN Perms(n) ELSE {[i \in 1..n |-> i]}
         IN  {IF IsList(value) THEN [list |-> [i \in 1..n |-> f[p[i]]]]
                               ELSE [dict |-> [i \in 1..n |-> f[p[i]]]] :
                 f \in choices, p \in perms}

\* hash_tableformer_config._canonicalize, and the same sorting the keys of
\* the outermost mapping only
RECURSIVE _canonicalize(_)
_canonicalize(value) ==
    IF IsDict(value)
    THEN LET items == SortedByKey(value.dict)
         IN  Dict([i \in 1..Len(items) |->
                      Item(items[i].key, _canonicalize(items[i].value))])
    ELSE IF IsList(value)
    THEN [list |-> [i \in 1..Len(value.list) |-> _canonicalize(value.list[i])]]
    ELSE value

\* text.encode("utf-8"): the one character outside ASCII takes two bytes
Utf8Token(tok) == IF tok = "\"cafe-acute\"" THEN "\"caf\\xc3\\xa9\"" ELSE tok

Utf8Encode(text) == [i \in 1..Len(text) |-> Utf8Token(text[i])]

\* hashlib.sha256(data).hexdigest()
sha256(data) == [sha256_of |-> data]

_compute_hash_shallow(config) ==
    LET canonical == IF IsDict(config) THEN Dict(SortedByKey(config.dict)) ELSE config
        normalized == dumps(canonical, FALSE, FALSE)
    IN  [canonical_json |-> normalized, sha256 |-> sha256(Utf8Encode(normalized))]

_compute_hash(config) ==
    LET canonical == _canonicalize(config)
        normalized == dumps(canonical, FALSE, FALSE)
    IN  [canonical_json |-> normalized, sha256 |-> sha256(Utf8Encode(normalized))]

\* export_tableformer_post_processing
_canonical_json(data) == dumps(data, TRUE, TRUE)

_sha256_bytes(data) == sha256(data)

_sha256_json(data) == _sha256_bytes(Utf8Encode(_canonical_json(data)))

CjIdle ==
    /\ cj_routine = None
    /\ cj_first = Null
    /\ cj_second = Null
    /\ cj_built = None
    /\ cj_hashes = <<>>
    /\ cj_pc = "idle"

CjStart ==
    /\ cj_routine \in {"_compute_hash", "_sha256_json"}
    /\ cj_first \in Payloads(MaxDepth)
    /\ cj_second = Null
    /\ cj_built = None
    /\ cj_hashes = <<>>
    /\ cj_pc = "build"

\* the second payload: the first with its keys inserted in another order
InsertKeysInOtherOrder ==
    /\ cj_pc = "build"
    /\ cj_second' \in Variants(cj_first, TRUE)
    /\ cj_built' = "keys reordered"
    /\ cj_pc' = "hash"
    /\ UNCHANGED <<cj_routine, cj_first, cj_hashes, not_cj>>

\* the second payload: the first with its lists in another order
PutListsInOtherOrder ==
    /\ cj_pc = "build"
    /\ cj_second' \in Variants(cj_first, FALSE)
    /\ cj_built' = "lists reordered"
    /\ cj_pc' = "hash"
    /\ UNCHANGED <<cj_routine, cj_first, cj_hashes, not_cj>>

ComputeHash ==
    /\ cj_pc = "hash"
    /\ cj_routine = "_compute_hash"
    /\ cj_hashes' = <<_compute_hash(cj_first), _compute_hash(cj_second)>>
    /\ cj_pc' = "hashed"
    /\ UNCHANGED <<cj_routine, cj_first, cj_second, cj_built, not_cj>>

Sha256Json ==
    /\ cj_pc = "hash"
    /\ cj_routine = "_sha256_json"
    /\ cj_hashes' = <<[canonical_json |-> _canonical_json(cj_first),
                       sha256 |-> _sha256_json(cj_first)],
                      [canonical_json |-> _canonical_json(cj_second),
                       sha256 |-> _sha256_json(cj_second)]>>
    /\ cj_pc' = "hashed"
    /\ UNCHANGED <<cj_routine, cj_first, cj_second, cj_built, not_cj>>

CjNext ==
    \/ InsertKeysInOtherOrder
    \/ PutListsInOtherOrder
    \/ ComputeHash
    \/ Sha256Json

\* C18: two payloads that are equal as nested mappings, whatever the order
\* their keys were inserted in at any depth, get the same canonical text and
\* the same digest from both routines; two payloads that differ in the order
\* of a list and are not equal get different canonical texts.
C18_KeyOrderIgnoredListOrderKept ==
    cj_pc = "hashed" =>
        /\ SameData(cj_first, cj_second) =>
               /\ cj_hashes[1].canonical_json = cj_hashes[2].canonical_json
               /\ cj_hashes[1].sha256 = cj_hashes[2].sha256
        /\ (cj_built = "lists reordered" /\ ~SameData(cj_first, cj_second)) =>
               cj_hashes[1].canonical_json # cj_hashes[2].canonical_json

\* a mapping inside a list had its keys inserted in the other order, and
\* the texts and digests are the same
C18_Witness ==
    /\ cj_pc = "hashed"
    /\ cj_built = "keys reordered"
    /\ IsList(cj_first) /\ Len(cj_first.list) = 2
    /\ IsDict(cj_first.list[1]) /\ Len(cj_first.list[1].dict) = 2
    /\ cj_second.list[1].dict = Reversed(cj_first.list[1].dict)
    /\ cj_hashes[1] = cj_hashes[2]

\* a list was put in the other order and the texts differ
C18_WitnessLists ==
    /\ cj_pc = "hashed"
    /\ cj_built = "lists reordered"
    /\ ~SameData(cj_first, cj_second)
    /\ cj_hashes[1].canonical_json # cj_hashes[2].canonical_json

(***************************************************************************)
(* _resize_rgb_bilinear of scripts/export_tableformer_table_crops (rounds  *)
(* to 8 bits) and of scripts/export_tableformer_image_tensors (returns     *)
(* float32).  An image is its rows of pixels of three channel values, each *)
(* a fraction; indices count from 0 as in the code.                        *)
(***************************************************************************)
MaxSide == 2
MaxTarget == 3

RatSub(p, q) == Rat(p[1] * q[2] - q[1] * p[2], p[2] * q[2])
RatMul(p, q) == Rat(p[1] * q[1], p[2] * q[2])

\* the pixels of an 8-bit RGB image, and those a float32 image can also hold
Uint8Pixels == {<<<<0, 1>>, <<0, 1>>, <<0, 1>>>>, <<<<255, 1>>, <<128, 1>>, <<7, 1>>>>}

Float32Pixels == {<<<<255, 1>>, <<128, 1>>, <<7, 1>>>>, <<<<255, 2>>, <<1, 4>>, <<254, 1>>>>}

ImagesOf(pixels) ==
    UNION {[1..h -> [1..w -> pixels]] : h \in 1..MaxSide, w \in 1..MaxSide}

\* np.clip on one value, and no clipping at all
clip_none(v, lo, hi) == v

clip(v, lo, hi) == IF v < lo THEN lo ELSE IF v > hi THEN hi ELSE v

\* along one axis, for each target position: coords = position / scale, its
\* floor, the two clipped neighbour indices and the interpolation weight
Axis(target, src) ==
    [i \in 1..target |->
        LET coord == Rat((i - 1) * src, target)
            floor == coord[1] \div coord[2]
            lerp == RatSub(coord, <<floor, 1>>)
            i0 == clip(floor, 0, src - 1)
            i1 == clip(i0 + 1, 0, src - 1)
        IN  [i0 |-> i0, i1 |-> i1, lerp |-> IF i0 = i1 THEN <<0, 1>> ELSE lerp]]

\* an index numpy accepts for an axis of length src
Indexable(i, src) == i \in 0..(src - 1)

\* top + (bottom - top) * y_lerp for one channel
Interpolate(image, x, y, channel) ==
    LET p00 == image[y.i0 + 1][x.i0 + 1][channel]
        p10 == image[y.i0 + 1][x.i1 + 1][channel]
        p01 == image[y.i1 + 1][x.i0 + 1][channel]
        p11 == image[y.i1 + 1][x.i1 + 1][channel]
        top == RatAdd(p00, RatMul(RatSub(p10, p00), x.lerp))
        bottom == RatAdd(p01, RatMul(RatSub(p11, p01), x.lerp))
    IN  RatAdd(top, RatMul(RatSub(bottom, top), y.lerp))

\* np.round: to the nearest integer, halves to the even one
Round(v) ==
    LET q == v[1] \div v[2]
        twice == 2 * (v[1] % v[2])
    IN  IF twice < v[2] THEN q
        ELSE IF twice > v[2] THEN q + 1
        ELSE IF q % 2 = 0 THEN q ELSE q + 1

\* np.clip(np.round(value), 0, 255).astype(np.uint8)
Uint8(v) == <<clip(Round(v), 0, 255), 1>>

RECURSIVE IsPowerOf2(_)
IsPowerOf2(n) == n = 1 \/ (n % 2 = 0 /\ IsPowerOf2(n \div 2))

\* value.astype(np.float32): the value when float32 has it, and otherwise a
\* float32 near it
Float32(v) == IF IsPowerOf2(v[2]) THEN v ELSE [float32_near |-> v]

\* the body shared by the two exporters; as_type is the final conversion
Bilinear(image, target_width, target_height, as_type(_)) ==
    LET src_height == Len(image)
        src_width == Len(image[1])
        xs == Axis(target_width, src_width)
        ys == Axis(target_height, src_height)
        read == [x0 |-> [i \in 1..target_width |-> xs[i].i0],
                 x1 |-> [i \in 1..target_width |-> xs[i].i1],
                 y0 |-> [i \in 1..target_height |-> ys[i].i0],
                 y1 |-> [i \in 1..target_height |-> ys[i].i1]]
        indexable ==
            /\ \A i \in 1..target_width :
                   Indexable(xs[i].i0, src_width) /\ Indexable(xs[i].i1, src_width)
            /\ \A i \in 1..target_height :
                   Indexable(ys[i].i0, src_height) /\ Indexable(ys[i].i1, src_height)
    IN  [read |-> read,
         result |->
            IF ~indexable THEN [raised |-> "IndexError"]
            ELSE [pixels |->
                    [r \in 1..target_height |-> [c \in 1..target_width |->
                        [ch \in 1..Len(image[1][1]) |->
                            as_type(Interpolate(image, xs[c], ys[r], ch))]]]]]

RsIdle ==
    /\ rs_exporter = None
    /\ rs_image = <<>>
    /\ rs_target_width = 0
    /\ rs_target_height = 0
    /\ rs_read = <<>>
    /\ rs_resized = <<>>
    /\ rs_pc = "idle"

\* the crop exporter resizes 8-bit images, the tensor exporter crops of
\* 8-bit images or of images it resized before
RsStart ==
    /\ rs_exporter \in {"table_crops", "image_tensors"}
    /\ rs_image \in ImagesOf(IF rs_exporter = "table_crops" THEN Uint8Pixels
                                                             ELSE Float32Pixels)
    /\ rs_target_width \in 0..MaxTarget
    /\ rs_target_height \in 0..MaxTarget
    /\ rs_read = <<>>
    /\ rs_resized = <<>>
    /\ rs_pc = "call"

ResizeToUint8 ==
    /\ rs_pc = "call"
    /\ rs_exporter = "table_crops"
    /\ LET done == Bilinear(rs_image, rs_target_width, rs_target_height, Uint8)
       IN  rs_read' = done.read /\ rs_resized' = done.result
    /\ rs_pc' = "returned"
    /\ UNCHANGED <<rs_exporter, rs_image, rs_target_width, rs_target_height, not_rs>>

ResizeToFloat32 ==
    /\ rs_pc = "call"
    /\ rs_exporter = "image_tensors"
    /\ LET done == Bilinear(rs_image, rs_target_width, rs_target_height, Float32)
       IN  rs_read' = done.read /\ rs_resized' = done.result
    /\ rs_pc' = "returned"
    /\ UNCHANGED <<rs_exporter, rs_image, rs_target_width, rs_target_height, not_rs>>

RsNext ==
    \/ ResizeToUint8
    \/ ResizeToFloat32

SameSize ==
    /\ rs_target_height = Len(rs_image)
    /\ rs_target_width = Len(rs_image[1])

\* C19: resized to its own width and height an image comes back with every
\* channel of every pixel unchanged, from both exporters; and for every
\* target size the four neighbour indices read are within the source image.
C19_SameSizeIsIdentityAndReadsInRange ==
    rs_pc = "returned" =>
        /\ SameSize => rs_resized = [pixels |-> rs_image]
        /\ \A i \in 1..rs_target_width :
               /\ rs_read.x0[i] \in 0..(Len(rs_image[1]) - 1)
               /\ rs_read.x1[i] \in 0..(Len(rs_image[1]) - 1)
        /\ \A i \in 1..rs_target_height :
               /\ rs_read.y0[i] \in 0..(Len(rs_image) - 1)
               /\ rs_read.y1[i] \in 0..(Len(rs_image) - 1)

\* an image of two by two pixels that are not all alike came back unchanged
C19_Witness ==
    /\ rs_pc = "returned"
    /\ SameSize
    /\ Len(rs_image) = 2 /\ Len(rs_image[1]) = 2
    /\ rs_image[1][1] # rs_image[1][2]
    /\ rs_image[1][1] # rs_image[2][1]
    /\ rs_resized = [pixels |-> rs_image]

\* an image was enlarged and the neighbour right of its last column was
\* clipped back to that column
C19_WitnessClipped ==
    /\ rs_pc = "returned"
    /\ rs_target_width > Len(rs_image[1])
    /\ rs_read.x1[rs_target_width] = rs_read.x0[rs_target_width]
    /\ rs_read.x0[rs_target_width] = Len(rs_image[1]) - 1

(***************************************************************************)
(* scripts/validate_quality.match_iou.  Predictions are numbered from 1 in *)
(* their list; a pair is <<baseline index, variant index>>.                *)
(***************************************************************************)
MaxBaseBoxes == 2
MaxVariantBoxes == 2

MinMatchIou == <<1, 10>>

MatchLabels == {"table", "text"}

\* boxes whose IoUs are 0, 1/12, 1/10, 4/7 and 1
MatchBoxes == {<<0, 0, 1, 1>>, <<0, 0, 4, 3>>, <<3, 2, 4, 3>>, <<0, 0, 5, 2>>}

MatchPreds == {[label |-> l, bbox |-> b] : l \in MatchLabels, b \in MatchBoxes}

\* [x for x in preds if x["label"] == label], as indices
WithLabel(preds, label) ==
    SelectSeq([i \in 1..Len(preds) |-> i], LAMBDA i : preds[i].label = label)

\* if used[j]: continue, and the same never skipping
Claimed_never(used, j) == FALSE

Claimed(used, j) == j \in used

\* the loop over v_boxes for one baseline box, from position j on
RECURSIVE BestVariant(_, _, _, _, _, _)
BestVariant(bbox, var, v_boxes, used, j, best) ==
    IF j > Len(v_boxes) THEN best
    ELSE IF Claimed(used, j) THEN BestVariant(bbox, var, v_boxes, used, j + 1, best)
    ELSE LET iou == box_iou(bbox, var[v_boxes[j]].bbox)
         IN  BestVariant(bbox, var, v_boxes, used, j + 1,
                         IF RatLess(best.best_iou, iou)
                         THEN [best_iou |-> iou, best_j |-> j]
                         ELSE best)

\* the loop over b_boxes for one label, from position k on
RECURSIVE MatchLabel(_, _, _, _, _, _)
MatchLabel(base, var, b_boxes, v_boxes, used, k) ==
    IF k > Len(b_boxes) THEN [ious |-> <<>>, pairs |-> <<>>]
    ELSE LET best == BestVariant(base[b_boxes[k]].bbox, var, v_boxes, used, 1,
                                 [best_iou |-> <<0, 1>>, best_j |-> -1])
             accepted == RatGeq(best.best_iou, MinMatchIou) /\ best.best_j >= 0
             rest == MatchLabel(base, var, b_boxes, v_boxes,
                                IF accepted THEN used \cup {best.best_j} ELSE used, k + 1)
         IN  IF accepted
             THEN [ious |-> <<best.best_iou>> \o rest.ious,
                   pairs |-> <<<<b_boxes[k], v_boxes[best.best_j]>>>> \o rest.pairs]
             ELSE rest

\* the loop over the labels, taken in the order given
RECURSIVE match_iou(_, _, _)
match_iou(base, var, labels) ==
    IF labels = <<>> THEN [ious |-> <<>>, pairs |-> <<>>]
    ELSE LET first == MatchLabel(base, var, WithLabel(base, Head(labels)),
                                 WithLabel(var, Head(labels)), {}, 1)
             rest == match_iou(base, var, Tail(labels))
         IN  [ious |-> first.ious \o rest.ious, pairs |-> first.pairs \o rest.pairs]

LabelsOf(preds) == {preds[i].label : i \in 1..Len(preds)}

\* the orders a set can be iterated in
Orders(set) ==
    {order \in [1..Cardinality(set) -> set] :
        \A i, j \in 1..Cardinality(set) : i # j => order[i] # order[j]}

MiIdle ==
    /\ mi_base = <<>>
    /\ mi_var = <<>>
    /\ mi_ious = <<>>
    /\ mi_pairs = <<>>
    /\ mi_pc = "idle"

MiStart ==
    /\ mi_base \in SeqsUpTo(MatchPreds, MaxBaseBoxes)
    /\ mi_var \in SeqsUpTo(MatchPreds, MaxVariantBoxes)
    /\ mi_ious = <<>>
    /\ mi_pairs = <<>>
    /\ mi_pc = "call"

MatchIou ==
    /\ mi_pc = "call"
    /\ \E labels \in Orders(LabelsOf(mi_base) \cup LabelsOf(mi_var)) :
          LET matched == match_iou(mi_base, mi_var, labels)
          IN  mi_ious' = matched.ious /\ mi_pairs' = matched.pairs
    /\ mi_pc' = "returned"
    /\ UNCHANGED <<mi_base, mi_var, not_mi>>

MiNext == MatchIou

PairIou(pair) == box_iou(mi_base[pair[1]].bbox, mi_var[pair[2]].bbox)

\* the variant boxes of baseline box i's label that no earlier baseline box
\* was paired with
Unclaimed(i) ==
    {j \in 1..Len(mi_var) :
        /\ mi_var[j].label = mi_base[i].label
        /\ ~\E k \in 1..Len(mi_pairs) : mi_pairs[k][2] = j /\ mi_pairs[k][1] < i}

\* C20: every sample comes from a pair of boxes of the same label, no variant
\* box is in two pairs, and a baseline box gives a sample exactly when the
\* best IoU among the variant boxes of its label not yet claimed is at least
\* 0.1, that IoU being the sample; so every sample is at least 0.1 and a
\* label has at most as many samples as it has baseline boxes and as it has
\* variant boxes.
C20_GreedySameLabelMatching ==
    mi_pc = "returned" =>
        /\ Len(mi_ious) = Len(mi_pairs)
        /\ \A k \in 1..Len(mi_pairs) :
               /\ mi_base[mi_pairs[k][1]].label = mi_var[mi_pairs[k][2]].label
               /\ mi_ious[k] = PairIou(mi_pairs[k])
               /\ RatGeq(mi_ious[k], MinMatchIou)
               /\ \A j \in Unclaimed(mi_pairs[k][1]) :
                      RatGeq(mi_ious[k], PairIou(<<mi_pairs[k][1], j>>))
        /\ \A k, l \in 1..Len(mi_pairs) :
               k # l => mi_pairs[k][2] # mi_pairs[l][2] /\ mi_pairs[k][1] # mi_pairs[l][1]
        /\ \A i \in 1..Len(mi_base) :
               (\E k \in 1..Len(mi_pairs) : mi_pairs[k][1] = i)
                   <=> (\E j \in Unclaimed(i) : RatGeq(PairIou(<<i, j>>), MinMatchIou))
        /\ \A label \in MatchLabels :
               LET samples == {k \in 1..Len(mi_pairs) : mi_base[mi_pairs[k][1]].label = label}
               IN  /\ Cardinality(samples) <= Len(WithLabel(mi_base, label))
                   /\ Cardinality(samples) <= Len(WithLabel(mi_var, label))

\* two baseline boxes of one label overlap the one variant box of that
\* label: the first got it and the second gave no sample, though a variant
\* box of the other label overlaps it by 0.1 or more
C20_Witness ==
    /\ mi_pc = "returned"
    /\ Len(mi_base) = 2 /\ Len(mi_var) = 2
    /\ mi_base[1].label = mi_base[2].label
    /\ mi_var[1].label = mi_base[1].label
    /\ mi_var[2].label # mi_base[1].label
    /\ RatGeq(PairIou(<<2, 1>>), MinMatchIou)
    /\ RatGeq(PairIou(<<2, 2>>), MinMatchIou)
    /\ mi_pairs = <<<<1, 1>>>>

(***************************************************************************)
(* The crop rectangle of export_tableformer_table_crops.export_table_crops *)
(* and export_tableformer_image_tensors._extract_crop.  Coordinates and    *)
(* the scale factor are fractions; the resized page is resized_width by    *)
(* resized_height pixels.                                                  *)
(***************************************************************************)
MaxPage == 2

\* bbox coordinates: the halves from -1/2 to beyond the page
CropCoords == {Rat(n, 2) : n \in (0 - 1)..(2 * MaxPage + 1)}

ScaleFactors == {<<1, 1>>, <<1, 2>>}

\* max(low, min(v, high)), and the same without the bounds
Clamp_unbounded(v, low, high) == v

Clamp(v, low, high) == Max2(low, Min2(v, high))

\* the length of array[start:stop] over an axis of n entries
SliceLen(start, stop, n) ==
    LET from == IF start < 0 THEN Max2(0, start + n) ELSE Min2(start, n)
        to == IF stop < 0 THEN Max2(0, stop + n) ELSE Min2(stop, n)
    IN  Max2(0, to - from)

\* from the scaling of the bbox to the test of crop.size
ExtractCrop(bbox, scale_factor, resized_width, resized_height) ==
    LET rounded == [i \in 1..4 |-> Round(RatMul(bbox[i], scale_factor))]
        left == Clamp(rounded[1], 0, resized_width)
        top == Clamp(rounded[2], 0, resized_height)
        right == Max2(left, Min2(rounded[3], resized_width))
        bottom == Max2(top, Min2(rounded[4], resized_height))
        shape == <<SliceLen(top, bottom, resized_height),
                   SliceLen(left, right, resized_width), 3>>
    IN  [rounded_bbox |-> <<left, top, right, bottom>>,
         crop |-> IF shape[1] * shape[2] * shape[3] = 0
                  THEN [raised |-> "ValueError"]
                  ELSE [shape |-> shape]]

CrIdle ==
    /\ cr_width = 0
    /\ cr_height = 0
    /\ cr_bbox = <<>>
    /\ cr_scale_factor = <<1, 1>>
    /\ cr_exporter = None
    /\ cr_rounded_bbox = <<>>
    /\ cr_crop = Absent
    /\ cr_pc = "idle"

CrStart ==
    /\ cr_width \in 0..MaxPage
    /\ cr_height \in 0..MaxPage
    /\ cr_bbox \in [1..4 -> CropCoords]
    /\ cr_scale_factor \in ScaleFactors
    /\ cr_exporter = None
    /\ cr_rounded_bbox = <<>>
    /\ cr_crop = Absent
    /\ cr_pc = "crop"

\* the loop body of export_table_crops up to the test of crop.size
CropOfTableCrops ==
    /\ cr_pc = "crop"
    /\ cr_exporter' = "table_crops"
    /\ LET done == ExtractCrop(cr_bbox, cr_scale_factor, cr_width, cr_height)
       IN  cr_rounded_bbox' = done.rounded_bbox /\ cr_crop' = Some(done.crop)
    /\ cr_pc' = "done"
    /\ UNCHANGED <<cr_width, cr_height, cr_bbox, cr_scale_factor, not_cr>>

\* image_tensors._extract_crop
CropOfImageTensors ==
    /\ cr_pc = "crop"
    /\ cr_exporter' = "image_tensors"
    /\ LET done == ExtractCrop(cr_bbox, cr_scale_factor, cr_width, cr_height)
       IN  cr_rounded_bbox' = done.rounded_bbox /\ cr_crop' = Some(done.crop)
    /\ cr_pc' = "done"
    /\ UNCHANGED <<cr_width, cr_height, cr_bbox, cr_scale_factor, not_cr>>

CrNext ==
    \/ CropOfTableCrops
    \/ CropOfImageTensors

\* C24: the rectangle satisfies 0 <= left <= right <= W and
\* 0 <= top <= bottom <= H; the export fails exactly when right = left or
\* bottom = top; and a crop that is exported is right - left wide and
\* bottom - top high, both positive.
C24_CropRectangleWithinPage ==
    cr_pc = "done" =>
        LET left == cr_rounded_bbox[1]
            top == cr_rounded_bbox[2]
            right == cr_rounded_bbox[3]
            bottom == cr_rounded_bbox[4]
            crop == Value(cr_crop)
        IN  /\ 0 <= left /\ left <= right /\ right <= cr_width
            /\ 0 <= top /\ top <= bottom /\ bottom <= cr_height
            /\ (DOMAIN crop = {"raised"}) <=> (right = left \/ bottom = top)
            /\ DOMAIN crop = {"shape"} =>
                   /\ crop.shape[1] = bottom - top /\ crop.shape[1] > 0
                   /\ crop.shape[2] = right - left /\ crop.shape[2] > 0

\* a bbox that starts left of the page and ends beyond it was cut to the
\* page and exported
C24_Witness ==
    /\ cr_pc = "done"
    /\ RatLess(cr_bbox[1], <<0, 1>>)
    /\ RatLess(<<cr_width, 1>>, RatMul(cr_bbox[3], cr_scale_factor))
    /\ cr_rounded_bbox[1] = 0
    /\ cr_rounded_bbox[3] = cr_width
    /\ DOMAIN Value(cr_crop) = {"shape"}

\* a bbox whose right edge is left of its left edge failed
C24_WitnessEmpty ==
    /\ cr_pc = "done"
    /\ RatLess(cr_bbox[3], cr_bbox[1])
    /\ cr_rounded_bbox[3] = cr_rounded_bbox[1]
    /\ Value(cr_crop) = [raised |-> "ValueError"]

(***************************************************************************)
(* scripts/export_tableformer_*.py: the export stages.  Each stage reads   *)
(* reference files of the results directory and the PNGs of the dataset    *)
(* directory, builds its samples in memory and writes its own reference    *)
(* file as its last step.  A reference file is modelled by the number of   *)
(* samples it holds: the images 1..n, one table each.                      *)
(***************************************************************************)
MaxPngs == 2

PageInputReference == "tableformer_page_input_reference.json"
TableCropReference == "tableformer_table_crops_reference.json"
ImageTensorReference == "tableformer_image_tensors_reference.json"
NeuralReference == "tableformer_neural_outputs_reference.json"
SequenceReference == "tableformer_sequence_decoding_reference.json"
ConfigReference == "tableformer_config_fast_hash.json"
CellReference == "tableformer_cell_matching_reference.json"
PostProcessingReference == "tableformer_post_processing_reference.json"

ReferenceFiles ==
    {PageInputReference, TableCropReference, ImageTensorReference,
     NeuralReference, SequenceReference, ConfigReference, CellReference,
     PostProcessingReference}

\* the six stages, each named by the reference file it writes
ExportStages ==
    {TableCropReference, ImageTensorReference, NeuralReference,
     SequenceReference, CellReference, PostProcessingReference}

\* the reference files a stage opens
Upstream(stage) ==
    CASE stage = TableCropReference -> {PageInputReference}
      [] stage = ImageTensorReference -> {PageInputReference}
      [] stage = NeuralReference -> {ImageTensorReference}
      [] stage = SequenceReference -> {NeuralReference}
      [] stage = CellReference ->
            {SequenceReference, NeuralReference, TableCropReference,
             PageInputReference, ConfigReference}
      [] stage = PostProcessingReference -> {CellReference}
      [] OTHER -> {}

Exists(path) == st_results[path] # Absent
Samples(path) == Value(st_results[path])

\* the first sample of 1..count whose processing raises, 0 when none does
FailingSample(count) == 0..count

\* the stage that opens its output before it builds the samples
WriteOutput_openFirst(stage, error, count) ==
    /\ st_results' =
          IF error = None THEN [st_results EXCEPT ![stage] = Some(count)]
          ELSE IF error = "FileNotFoundError" THEN st_results
          ELSE [st_results EXCEPT ![stage] = Some(0)]
    /\ st_last' = [stage |-> stage, outcome |-> IF error = None
                                                THEN "written" ELSE error,
                   missing |-> \E f \in Upstream(stage) : ~Exists(f)]
    /\ st_seen' = IF error = None
                  THEN [st_seen EXCEPT
                           ![stage] = \A f \in Upstream(stage) : Exists(f)]
                  ELSE st_seen
    /\ UNCHANGED st_pngs

\* the end of a stage: an error raised on the way leaves the results
\* directory alone, otherwise the output is opened for writing and dumped
WriteOutput(stage, error, count) ==
    /\ st_results' =
          IF error = None THEN [st_results EXCEPT ![stage] = Some(count)]
          ELSE st_results
    /\ st_last' = [stage |-> stage, outcome |-> IF error = None
                                                THEN "written" ELSE error,
                   missing |-> \E f \in Upstream(stage) : ~Exists(f)]
    /\ st_seen' = IF error = None
                  THEN [st_seen EXCEPT
                           ![stage] = \A f \in Upstream(stage) : Exists(f)]
                  ELSE st_seen
    /\ UNCHANGED st_pngs

\* _load_page_input_bboxes, then the checks on the dataset and its images
PageInputError(bad) ==
    IF ~Exists(PageInputReference) THEN "FileNotFoundError"
    ELSE IF Samples(PageInputReference) = 0 THEN "ValueError"
    ELSE IF st_pngs = 0 THEN "FileNotFoundError"
    ELSE IF st_pngs > Samples(PageInputReference) THEN "KeyError"
    ELSE IF bad > 0 THEN "ValueError"
    ELSE None

StIdle ==
    /\ st_results = [f \in ReferenceFiles |-> Absent]
    /\ st_pngs = 0
    /\ st_last = [stage |-> None, outcome |-> None, missing |-> FALSE]
    /\ st_seen = [f \in ReferenceFiles |-> FALSE]

\* an empty results directory and a dataset of any size
StStart ==
    /\ st_results = [f \in ReferenceFiles |-> Absent]
    /\ st_pngs \in 0..MaxPngs
    /\ st_last = [stage |-> None, outcome |-> None, missing |-> FALSE]
    /\ st_seen = [f \in ReferenceFiles |-> FALSE]

\* a PNG is added to the dataset directory between two stages
AddPng ==
    /\ st_pngs < MaxPngs
    /\ st_pngs' = st_pngs + 1
    /\ UNCHANGED <<st_results, st_last, st_seen>>
    /\ UNCHANGED not_st

\* export_tableformer_page_input.export_page_inputs
ExportPageInputs ==
    /\ \E bad \in FailingSample(st_pngs) :
          WriteOutput(PageInputReference,
                      IF st_pngs = 0 THEN "FileNotFoundError"
                      ELSE IF bad > 0 THEN "OSError" ELSE None,
                      st_pngs)
    /\ UNCHANGED not_st

\* hash_tableformer_config.main: the download may fail
HashConfig ==
    /\ \E downloaded \in BOOLEAN :
          WriteOutput(ConfigReference,
                      IF downloaded THEN None ELSE "HTTPError", 1)
    /\ UNCHANGED not_st

\* export_tableformer_table_crops.export_table_crops
ExportTableCrops ==
    /\ \E bad \in FailingSample(st_pngs) :
          WriteOutput(TableCropReference, PageInputError(bad), st_pngs)
    /\ UNCHANGED not_st

\* export_tableformer_image_tensors.export_image_tensors
ExportImageTensors ==
    /\ \E bad \in FailingSample(st_pngs), normalized \in BOOLEAN :
          WriteOutput(ImageTensorReference,
                      IF ~Exists(PageInputReference)
                      THEN "FileNotFoundError"
                      ELSE IF Samples(PageInputReference) = 0
                      THEN "ValueError"
                      ELSE IF ~normalized THEN "ValueError"
                      ELSE PageInputError(bad),
                      st_pngs)
    /\ UNCHANGED not_st

\* export_tableformer_neural_outputs.export_neural_outputs
ExportNeuralOutputs ==
    /\ \E bad \in FailingSample(IF Exists(ImageTensorReference)
                                THEN Samples(ImageTensorReference) ELSE 0) :
          WriteOutput(NeuralReference,
                      IF ~Exists(ImageTensorReference)
                      THEN "FileNotFoundError"
                      ELSE IF Samples(ImageTensorReference) = 0
                      THEN "ValueError"
                      ELSE IF bad > 0 THEN "RuntimeError"
                      ELSE None,
                      IF Exists(ImageTensorReference)
                      THEN Samples(ImageTensorReference) ELSE 0)
    /\ UNCHANGED not_st

\* export_tableformer_sequence_decoding.export_sequence_decoding
ExportSequenceDecoding ==
    /\ \E bad \in FailingSample(IF Exists(NeuralReference)
                                THEN Samples(NeuralReference) ELSE 0) :
          WriteOutput(SequenceReference,
                      IF ~Exists(NeuralReference)
                      THEN "FileNotFoundError"
                      ELSE IF Samples(NeuralReference) = 0
                      THEN "ValueError"
                      ELSE IF bad > 0 THEN "ValueError"
                      ELSE None,
                      IF Exists(NeuralReference)
                      THEN Samples(NeuralReference) ELSE 0)
    /\ UNCHANGED not_st

\* export_tableformer_cell_matching.export_cell_matching: the five
\* references are loaded first, then every sequence sample is joined with
\* the neural, crop and page input sample of the same image
ExportCellMatching ==
    /\ \E bad \in FailingSample(IF Exists(SequenceReference)
                                THEN Samples(SequenceReference) ELSE 0) :
          WriteOutput(CellReference,
                      IF \E f \in Upstream(CellReference) : ~Exists(f)
                      THEN "FileNotFoundError"
                      ELSE IF Samples(SequenceReference) = 0
                      THEN "ValueError"
                      ELSE IF \/ Samples(SequenceReference)
                                    > Samples(NeuralReference)
                              \/ Samples(SequenceReference)
                                    > Samples(TableCropReference)
                              \/ Samples(SequenceReference)
                                    > Samples(PageInputReference)
                      THEN "KeyError"
                      ELSE IF bad > 0 THEN "ValueError"
                      ELSE None,
                      IF Exists(SequenceReference)
                      THEN Samples(SequenceReference) ELSE 0)
    /\ UNCHANGED not_st

\* export_tableformer_post_processing.export_post_processing
ExportPostProcessing ==
    /\ \E bad \in FailingSample(IF Exists(CellReference)
                                THEN Samples(CellReference) ELSE 0) :
          WriteOutput(PostProcessingReference,
                      IF ~Exists(CellReference) THEN "FileNotFoundError"
                      ELSE IF bad > 0 THEN "KeyError"
                      ELSE None,
                      IF Exists(CellReference)
                      THEN Samples(CellReference) ELSE 0)
    /\ UNCHANGED not_st

StNext ==
    \/ AddPng
    \/ ExportPageInputs
    \/ HashConfig
    \/ ExportTableCrops
    \/ ExportImageTensors
    \/ ExportNeuralOutputs
    \/ ExportSequenceDecoding
    \/ ExportCellMatching
    \/ ExportPostProcessing

\* what a stage that ends with a fatal error does to the results directory
FatalLeavesResultsAlone ==
    (st_last' # st_last /\ st_last'.outcome # "written")
        => st_results' = st_results

\* C25: a stage run while one of its upstream reference files is absent
\* ends with a fatal error; a stage that ends with a fatal error leaves
\* every file of the results directory as it was; and the output file of a
\* stage exists only if all of its upstream files existed when it was
\* written.
C25_FailedStageWritesNothing ==
    /\ [](st_last.missing => st_last.outcome = "FileNotFoundError")
    /\ [][FatalLeavesResultsAlone]_vars
    /\ [](\A stage \in ExportStages : Exists(stage) => st_seen[stage])

\* the cell matching stage failed on a sample with all five references
\* and an older output in place, and a later stage was written
C25_Witness ==
    /\ st_last.stage = CellReference
    /\ st_last.outcome \in {"KeyError", "ValueError"}
    /\ \A f \in Upstream(CellReference) : Exists(f)
    /\ Exists(CellReference)
    /\ Exists(PostProcessingReference)

\* a stage was run before its upstream file existed
C25_WitnessMissing ==
    /\ st_last.stage = SequenceReference
    /\ ~Exists(NeuralReference)
    /\ st_last.outcome = "FileNotFoundError"
    /\ ~Exists(SequenceReference)

(***************************************************************************)
(* scripts/validate_quality.quality_metrics.  The baseline folder is a     *)
(* list of prediction files; the variant folder holds, for each of them,   *)
(* a file of the same name or none.                                        *)
(***************************************************************************)
MaxQmImages == 2
MaxQmBoxes == 1

\* two boxes that do not overlap
QmBoxes == {<<0, 0, 1, 1>>, <<3, 2, 4, 3>>}

QmPreds ==
    {[label |-> "table", bbox |-> b] : b \in QmBoxes}
        \cup {[label |-> "text", bbox |-> <<0, 0, 1, 1>>]}

\* load_preds(var_dir, name) if (var_dir / name).exists() else []
LoadVar(file) == IF file = Absent THEN <<>> ELSE Value(file)

\* the labels of one image in the order the label set is iterated
LabelsInOrder(order, base, var) ==
    SelectSeq(order, LAMBDA label : label \in LabelsOf(base) \cup LabelsOf(var))

\* ious_all after the loop over the baseline files, from file img on
RECURSIVE IousAll(_, _, _, _)
IousAll(baseline, variant, orders, img) ==
    IF img > Len(baseline) THEN <<>>
    ELSE LET var == LoadVar(variant[img])
         IN  match_iou(baseline[img], var,
                       LabelsInOrder(orders[img], baseline[img], var)).ious
                 \o IousAll(baseline, variant, orders, img + 1)

\* delta_boxes after the loop: (len(var) - len(base)) / max(1, len(base)) * 100.0
QmDeltaBoxes(baseline, variant) ==
    [img \in 1..Len(baseline) |->
        Rat((Len(LoadVar(variant[img])) - Len(baseline[img])) * 100,
            Max2(1, Len(baseline[img])))]

AtLeastHalf(ious) == [i \in 1..Len(ious) |-> Bool01(RatGeq(ious[i], <<1, 2>>))]

\* the same with 0.0 for an empty list of samples
quality_metrics_zeroWhenEmpty(baseline, variant, orders) ==
    LET ious_all == IousAll(baseline, variant, orders, 1)
        delta_boxes == QmDeltaBoxes(baseline, variant)
    IN  [ious_all |-> ious_all,
         mean_iou |-> IF ious_all # <<>> THEN Mean(ious_all) ELSE <<0, 1>>,
         iou50 |-> IF ious_all # <<>> THEN Mean(AtLeastHalf(ious_all))
                   ELSE <<0, 1>>,
         delta_box |-> IF delta_boxes # <<>> THEN Mean(delta_boxes)
                       ELSE <<0, 1>>]

quality_metrics(baseline, variant, orders) ==
    LET ious_all == IousAll(baseline, variant, orders, 1)
        delta_boxes == QmDeltaBoxes(baseline, variant)
    IN  [ious_all |-> ious_all,
         mean_iou |-> IF ious_all # <<>> THEN Mean(ious_all) ELSE <<1, 1>>,
         iou50 |-> IF ious_all # <<>> THEN Mean(AtLeastHalf(ious_all))
                   ELSE <<1, 1>>,
         delta_box |-> IF delta_boxes # <<>> THEN Mean(delta_boxes)
                       ELSE <<0, 1>>]

\* the three accuracy conditions of the acceptance check of main
AccuracyMet(metrics) ==
    /\ RatGeq(metrics.iou50, <<Iou50Min, 1000>>)
    /\ RatGeq(metrics.mean_iou, <<MeanIouMin, 1000>>)
    /\ RatGeq(<<DboxMax, 1000>>,
              <<Abs(metrics.delta_box[1]), metrics.delta_box[2]>>)

QmIdle ==
    /\ qm_base = <<>>
    /\ qm_var = <<>>
    /\ qm_ious_all = <<>>
    /\ qm_metrics = None
    /\ qm_pc = "idle"

QmStart ==
    /\ qm_base \in SeqsUpTo(SeqsUpTo(QmPreds, MaxQmBoxes), MaxQmImages)
    /\ qm_var \in [1..Len(qm_base) ->
                      {Absent} \cup {Some(p) : p \in SeqsUpTo(QmPreds, MaxQmBoxes)}]
    /\ qm_ious_all = <<>>
    /\ qm_metrics = None
    /\ qm_pc = "call"

QualityMetrics ==
    /\ qm_pc = "call"
    /\ \E orders \in [1..Len(qm_base) -> Orders(MatchLabels)] :
          LET result == quality_metrics(qm_base, qm_var, orders)
          IN  /\ qm_ious_all' = result.ious_all
              /\ qm_metrics' = [mean_iou |-> result.mean_iou,
                                iou50 |-> result.iou50,
                                delta_box |-> result.delta_box]
    /\ qm_pc' = "returned"
    /\ UNCHANGED <<qm_base, qm_var, not_qm>>

QmNext == QualityMetrics

\* no variant box of image img reaches IoU 0.1 with a baseline box of its
\* label (so also when the variant has no box, or no file)
NoBoxReaches(img) ==
    \A i \in 1..Len(qm_base[img]), j \in 1..Len(LoadVar(qm_var[img])) :
        qm_base[img][i].label = LoadVar(qm_var[img])[j].label
            => RatLess(box_iou(qm_base[img][i].bbox, LoadVar(qm_var[img])[j].bbox),
                       MinMatchIou)

\* same number of boxes as the baseline on every image, none overlapping
SameCountsNoOverlap ==
    \A img \in 1..Len(qm_base) :
        /\ Len(LoadVar(qm_var[img])) = Len(qm_base[img])
        /\ \A i \in 1..Len(qm_base[img]), j \in 1..Len(LoadVar(qm_var[img])) :
               box_iou(qm_base[img][i].bbox, LoadVar(qm_var[img])[j].bbox)[1] = 0

\* C26: when no variant box of any image reaches IoU 0.1 with a baseline
\* box of its label, mean_iou and iou@0.5 are both 1.0; and a variant with
\* the baseline's box count on every image and no box overlapping a
\* baseline box meets the three accuracy conditions of the acceptance check.
C26_NoSampleCountsAsPerfect ==
    qm_pc = "returned" =>
        /\ (\A img \in 1..Len(qm_base) : NoBoxReaches(img))
              => /\ qm_ious_all = <<>>
                 /\ qm_metrics.mean_iou = <<1, 1>>
                 /\ qm_metrics.iou50 = <<1, 1>>
        /\ SameCountsNoOverlap => AccuracyMet(qm_metrics)

\* two images with a baseline box each; the variant has one box on each,
\* overlapping no baseline box, and passes the accuracy conditions
C26_Witness ==
    /\ qm_pc = "returned"
    /\ Len(qm_base) = 2
    /\ \A img \in 1..2 : Len(qm_base[img]) = 1 /\ qm_var[img] # Absent
    /\ SameCountsNoOverlap
    /\ qm_ious_all = <<>>
    /\ AccuracyMet(qm_metrics)

\* the baseline has a box and the variant folder has no file for the image
C26_WitnessNoVariant ==
    /\ qm_pc = "returned"
    /\ Len(qm_base) = 1
    /\ Len(qm_base[1]) = 1
    /\ qm_var[1] = Absent
    /\ qm_metrics.mean_iou = <<1, 1>>
    /\ qm_metrics.iou50 = <<1, 1>>
    /\ ~AccuracyMet(qm_metrics)

(***************************************************************************)
(* export_tableformer_post_processing: what process_matching_details does  *)
(* to the objects of its argument.  A Python object is named by the place  *)
(* of the argument it started from and the copies made of it since; an     *)
(* item assignment or an in-place list operation is a write to the object  *)
(* it is applied to.                                                       *)
(***************************************************************************)
\* the i-th dict of a list of the argument, or the list itself for i = 0
ArgumentObject(collection, i) == [root |-> <<collection, i>>, copies |-> <<>>]

\* a list or dict built by the function
NewObject(site) == [root |-> <<site, 0>>, copies |-> <<"new">>]

\* binding the same object where the code copies it
Copy_sameObject(site, object) == object

\* dict(cell), dict(match): a new object with the items of the old one
Copy(site, object) == [object EXCEPT !.copies = Append(@, site)]

\* the object that stands in adjusted_cells for table cell i of the argument
AdjustedObject(i, is_bad) ==
    LET copied == Copy("_get_good_bad_cells_in_column",
                       Copy("process_matching_details",
                            ArgumentObject("table_cells", i)))
    IN  IF is_bad THEN Copy("_move_cells_to_alignment", copied) ELSE copied

\* new_cell["bbox"] = [left, top, right, bottom] for the bad cells of one
\* column, in list order from index i on
RECURSIVE MoveWrites(_, _, _, _)
MoveWrites(table_cells, matches, column, i) ==
    IF i > Len(table_cells) THEN <<>>
    ELSE LET cell == table_cells[i]
             cells == _get_good_bad_cells_in_column(table_cells, column, matches)
             align == _find_alignment_in_column(cells.good)
             median == _median_position_and_size(cells.good, align)
             is_bad == /\ cell.column_id = column
                       /\ (cell.cell_class <= 1 \/ ~Matched(matches, cell.cell_id))
             rest == MoveWrites(table_cells, matches, column, i + 1)
         IN  IF is_bad
             THEN <<[target |-> AdjustedObject(i, TRUE), item |-> "bbox",
                     value |-> MoveCell(cell, median.position, align,
                                        median.width, median.height).bbox]>>
                      \o rest
             ELSE rest

RECURSIVE ColumnWrites(_, _, _, _)
ColumnWrites(table_cells, matches, column, columns) ==
    IF column >= columns THEN <<>>
    ELSE MoveWrites(table_cells, matches, column, 1)
             \o ColumnWrites(table_cells, matches, column + 1, columns)

\* new_cell["bbox"] = list(pdf_lookup[pdf_id]) for the cells of dedup_cells
\* that have a match, from the k-th on
RECURSIVE AlignWrites(_, _, _, _, _, _)
AlignWrites(d, classifying, dedup_cells, pdf_cells, final_matches, k) ==
    IF k > Len(dedup_cells) THEN <<>>
    ELSE LET cell == dedup_cells[k]
             i == CHOOSE j \in 1..Len(d.table_cells) :
                      d.table_cells[j].cell_id = cell.cell_id
             is_bad == \/ d.table_cells[i].cell_class <= 1
                       \/ ~Matched(classifying, cell.cell_id)
             target == Copy("_align_table_cells_to_pdf",
                            Copy("_deduplicate_columns", AdjustedObject(i, is_bad)))
             aligned == AlignCell(cell, pdf_cells, final_matches)
             rest == AlignWrites(d, classifying, dedup_cells, pdf_cells,
                                 final_matches, k + 1)
         IN  IF \E m \in 1..Len(final_matches) :
                    /\ Refers(final_matches[m].value, cell.cell_id)
                    /\ \A n \in 1..(m - 1) :
                           ~Refers(final_matches[n].value, cell.cell_id)
                    /\ PdfLookup(pdf_cells, final_matches[m].key) # Absent
             THEN <<[target |-> target, item |-> "bbox", value |-> aligned.bbox]>>
                      \o rest
             ELSE rest

\* the writes of process_matching_details in program order, given what it
\* returns: the bbox of every moved cell, adjusted_cells.extend and .sort,
\* the bbox of every aligned cell, result_cells.append
Writes(d, returned) ==
    LET WritesOf(adjusted) ==
            LET pdf_cells == adjusted.pdf_cells
                classifying ==
                    IF d.matches = <<>> /\ pdf_cells # <<>>
                    THEN _compute_intersection_matches(d.table_cells, pdf_cells)
                    ELSE d.matches
                WritesFrom(dedup) ==
                    ColumnWrites(d.table_cells, classifying, 0,
                                 adjusted.dimension.columns)
                        \o <<[target |-> NewObject("adjusted_cells"),
                              item |-> "items",
                              value |-> adjusted.adjusted_cells]>>
                        \o AlignWrites(d, classifying, dedup.cells, pdf_cells,
                                       _do_final_assignment(dedup.matches), 1)
                        \o <<[target |-> NewObject("result_cells"),
                              item |-> "items",
                              value |-> returned.table_cells]>>
            IN  WritesFrom(_deduplicate_columns(
                    adjusted.dimension.columns, adjusted.adjusted_cells,
                    _compute_intersection_matches(adjusted.adjusted_cells,
                                                  pdf_cells)))
    IN  WritesOf(Adjusted(d))

\* the argument once one write has been done
WriteTo(d, write) ==
    IF write.target.copies # <<>> THEN d
    ELSE LET collection == write.target.root[1]
             i == write.target.root[2]
         IN  IF collection = "table_cells" /\ i = 0
             THEN [d EXCEPT !.table_cells = write.value]
             ELSE IF collection = "table_cells"
             THEN [d EXCEPT !.table_cells[i].bbox = write.value]
             ELSE d

RECURSIVE ArgumentAfter(_, _)
ArgumentAfter(d, writes) ==
    IF writes = <<>> THEN d
    ELSE ArgumentAfter(WriteTo(d, Head(writes)), Tail(writes))

\* _synthesize_pdf_cells
_synthesize_pdf_cells(table_cells) ==
    [i \in 1..Len(table_cells) |->
        [id |-> Numerals[i], bbox |-> table_cells[i].bbox, text |-> "cell"]]

FrIdle ==
    /\ fr_sample = None
    /\ fr_input = None
    /\ fr_processed = None
    /\ fr_writes = <<>>
    /\ fr_after = None
    /\ fr_hashes = None
    /\ fr_pc = "idle"

\* one sample of the cell matching reference
FrStart ==
    /\ \E cells \in SeqsUpTo(CellChoices, MaxCells), pdfs \in SeqsUpTo(PdfChoices, MaxPdf),
          kind \in MatchKinds :
          fr_sample = [table_cells |-> TableCellsOf(cells),
                       pdf_cells |-> PdfCellsOf(pdfs),
                       matches |-> GivenMatches(kind, TableCellsOf(cells))]
    /\ fr_input = None
    /\ fr_processed = None
    /\ fr_writes = <<>>
    /\ fr_after = None
    /\ fr_hashes = None
    /\ fr_pc = "load"

\* the copies of the sample's collections, synthesized PDF cells and
\* matches when the sample has no PDF cell
BuildInputDetails ==
    /\ fr_pc = "load"
    /\ fr_input' =
          IF fr_sample.pdf_cells = <<>>
          THEN [table_cells |-> fr_sample.table_cells,
                pdf_cells |-> _synthesize_pdf_cells(fr_sample.table_cells),
                matches |-> GivenMatches("each", fr_sample.table_cells)]
          ELSE fr_sample
    /\ fr_pc' = "process"
    /\ UNCHANGED <<fr_sample, fr_processed, fr_writes, fr_after, fr_hashes>>
    /\ UNCHANGED not_fr

\* processed = process_matching_details(input_details)
ProcessInputDetails ==
    /\ fr_pc = "process"
    /\ fr_processed' = process_matching_details(fr_input)
    /\ fr_writes' = Writes(fr_input, fr_processed')
    /\ fr_after' = ArgumentAfter(fr_input, fr_writes')
    /\ fr_pc' = "hash"
    /\ UNCHANGED <<fr_sample, fr_input, fr_hashes>>
    /\ UNCHANGED not_fr

\* the input hashes of the exported sample; the canonical text is a
\* function of the data
HashInputDetails ==
    /\ fr_pc = "hash"
    /\ fr_hashes' = [input_table_cells_sha256 |-> sha256(fr_after.table_cells),
                     input_matches_sha256 |-> sha256(fr_after.matches)]
    /\ fr_pc' = "exported"
    /\ UNCHANGED <<fr_sample, fr_input, fr_processed, fr_writes, fr_after>>
    /\ UNCHANGED not_fr

FrNext ==
    \/ BuildInputDetails
    \/ ProcessInputDetails
    \/ HashInputDetails

\* C27: after the call the table_cells, pdf_cells and matches of the input
\* details are what they were before it, and the input hashes of the
\* exported sample are those of the input details as built from the sample.
C27_ArgumentUnchanged ==
    /\ fr_pc \in {"hash", "exported"} => fr_after = fr_input
    /\ fr_pc = "exported" =>
          /\ fr_hashes.input_table_cells_sha256 = sha256(fr_input.table_cells)
          /\ fr_hashes.input_matches_sha256 = sha256(fr_input.matches)

\* a cell was moved and a cell was aligned, each to a bbox other than the
\* one the input holds, and the sample was exported
C27_Witness ==
    /\ fr_pc = "exported"
    /\ \E k \in 1..Len(fr_writes) :
          /\ fr_writes[k].target.root = <<"table_cells", 1>>
          /\ "_move_cells_to_alignment" \in
                 {fr_writes[k].target.copies[c] :
                      c \in 1..Len(fr_writes[k].target.copies)}
          /\ fr_writes[k].value # fr_input.table_cells[1].bbox
    /\ \E k \in 1..Len(fr_writes) :
          /\ fr_writes[k].target.root[1] = "table_cells"
          /\ fr_writes[k].target.root[2] > 0
          /\ fr_writes[k].target.copies[Len(fr_writes[k].target.copies)]
                 = "_align_table_cells_to_pdf"
          /\ fr_writes[k].value
                 # fr_input.table_cells[fr_writes[k].target.root[2]].bbox

(***************************************************************************)
(* Specifications                                                          *)
(***************************************************************************)
IouInit == IouStart /\ KpiIdle /\ GateIdle /\ DlIdle /\ TfIdle
              /\ PpIdle /\ DedupIdle /\ AlignIdle
              /\ CvIdle
              /\ BdIdle
              /\ TmIdle
              /\ CjIdle
              /\ RsIdle
              /\ MiIdle
              /\ CrIdle
              /\ StIdle
              /\ QmIdle
              /\ FrIdle
IouSpec == IouInit /\ [][IouNext]_vars

KpiInit == KpiStart /\ IouIdle /\ GateIdle /\ DlIdle /\ TfIdle
              /\ PpIdle /\ DedupIdle /\ AlignIdle
              /\ CvIdle
              /\ BdIdle
              /\ TmIdle
              /\ CjIdle
              /\ RsIdle
              /\ MiIdle
              /\ CrIdle
              /\ StIdle
              /\ QmIdle
              /\ FrIdle
KpiSpec == KpiInit /\ [][KpiNext]_vars

GateInit == GateStart /\ IouIdle /\ KpiIdle /\ DlIdle /\ TfIdle
              /\ PpIdle /\ DedupIdle /\ AlignIdle
              /\ CvIdle
              /\ BdIdle
              /\ TmIdle
              /\ CjIdle
              /\ RsIdle
              /\ MiIdle
              /\ CrIdle
              /\ StIdle
              /\ QmIdle
              /\ FrIdle
GateSpec == GateInit /\ [][GateNext]_vars

\* the downloader over every release of up to MaxAssets assets
DlTokens == {None, "cli"}
DlEnvirons == {[n \in {"GITHUB_TOKEN", "GITHUB_PAT", "GH_TOKEN"} |-> None],
               [n \in {"GITHUB_TOKEN", "GITHUB_PAT", "GH_TOKEN"} |->
                   IF n = "GH_TOKEN" THEN "env" ELSE None]}
DlInit == DlStart(DlTokens, DlEnvirons, Releases)
              /\ IouIdle /\ KpiIdle /\ GateIdle /\ TfIdle
              /\ PpIdle /\ DedupIdle /\ AlignIdle
              /\ CvIdle
              /\ BdIdle
              /\ TmIdle
              /\ CjIdle
              /\ RsIdle
              /\ MiIdle
              /\ CrIdle
              /\ StIdle
              /\ QmIdle
              /\ FrIdle
DlSpec == DlInit /\ [][DlNext]_vars

\* the downloader over every way of giving or not giving a token, on the
\* releases of at most one asset
TokTokens == {None, "", "cli"}
\* a variable that is set to something holds its own name
TokEnvirons ==
    {[n \in {"GITHUB_TOKEN", "GITHUB_PAT", "GH_TOKEN"} |->
        IF e[n] = "set" THEN n ELSE e[n]] :
        e \in [{"GITHUB_TOKEN", "GITHUB_PAT", "GH_TOKEN"} -> {None, "", "set"}]}
TokReleases ==
    {[status |-> "HTTPError", assets |-> <<>>]} \cup
    {[status |-> "ok", assets |-> l] : l \in SeqsUpTo(AssetRecords, 1)}
TokInit == DlStart(TokTokens, TokEnvirons, TokReleases)
              /\ IouIdle /\ KpiIdle /\ GateIdle /\ TfIdle
              /\ PpIdle /\ DedupIdle /\ AlignIdle
              /\ CvIdle
              /\ BdIdle
              /\ TmIdle
              /\ CjIdle
              /\ RsIdle
              /\ MiIdle
              /\ CrIdle
              /\ StIdle
              /\ QmIdle
              /\ FrIdle
TokSpec == TokInit /\ [][DlNext]_vars

TfInit == TfStart /\ IouIdle /\ KpiIdle /\ GateIdle /\ DlIdle
              /\ PpIdle /\ DedupIdle /\ AlignIdle
              /\ CvIdle
              /\ BdIdle
              /\ TmIdle
              /\ CjIdle
              /\ RsIdle
              /\ MiIdle
              /\ CrIdle
              /\ StIdle
              /\ QmIdle
              /\ FrIdle
TfSpec == TfInit /\ [][TfNext]_vars

PpInit == PpStart /\ IouIdle /\ KpiIdle /\ GateIdle /\ DlIdle /\ TfIdle
              /\ DedupIdle /\ AlignIdle
              /\ CvIdle
              /\ BdIdle
              /\ TmIdle
              /\ CjIdle
              /\ RsIdle
              /\ MiIdle
              /\ CrIdle
              /\ StIdle
              /\ QmIdle
              /\ FrIdle
PpSpec == PpInit /\ [][PpNext]_vars

DedupInit == DedupStart /\ IouIdle /\ KpiIdle /\ GateIdle /\ DlIdle /\ TfIdle
                 /\ PpIdle /\ AlignIdle
              /\ CvIdle
              /\ BdIdle
              /\ TmIdle
              /\ CjIdle
              /\ RsIdle
              /\ MiIdle
              /\ CrIdle
              /\ StIdle
              /\ QmIdle
              /\ FrIdle
DedupSpec == DedupInit /\ [][DedupNext]_vars

AlignInit == AlignStart /\ IouIdle /\ KpiIdle /\ GateIdle /\ DlIdle /\ TfIdle
                 /\ PpIdle /\ DedupIdle
              /\ CvIdle
              /\ BdIdle
              /\ TmIdle
              /\ CjIdle
              /\ RsIdle
              /\ MiIdle
              /\ CrIdle
              /\ StIdle
              /\ QmIdle
              /\ FrIdle
AlignSpec == AlignInit /\ [][AlignNext]_vars

CvInit == CvStart /\ IouIdle /\ KpiIdle /\ GateIdle /\ DlIdle /\ TfIdle /\
              PpIdle /\ DedupIdle /\ AlignIdle
              /\ BdIdle
              /\ TmIdle
              /\ CjIdle
              /\ RsIdle
              /\ MiIdle
              /\ CrIdle
              /\ StIdle
              /\ QmIdle
              /\ FrIdle
CvSpec == CvInit /\ [][CvNext]_vars

BdInit == BdStart /\ IouIdle /\ KpiIdle /\ GateIdle /\ DlIdle /\
              TfIdle /\ PpIdle /\ DedupIdle /\ AlignIdle /\ CvIdle
              /\ TmIdle
              /\ CjIdle
              /\ RsIdle
              /\ MiIdle
              /\ CrIdle
              /\ StIdle
              /\ QmIdle
              /\ FrIdle
BdSpec == BdInit /\ [][BdNext]_vars

TmInit == TmStart /\ IouIdle /\ KpiIdle /\ GateIdle /\ DlIdle /\ TfIdle /\
              PpIdle /\ DedupIdle /\ AlignIdle /\ CvIdle /\ BdIdle
              /\ CjIdle
              /\ RsIdle
              /\ MiIdle
              /\ CrIdle
              /\ StIdle
              /\ QmIdle
              /\ FrIdle
TmSpec == TmInit /\ [][TmNext]_vars

CjInit == CjStart /\ IouIdle /\ KpiIdle /\ GateIdle /\ DlIdle /\ TfIdle /\
              PpIdle /\ DedupIdle /\ AlignIdle /\ CvIdle /\ BdIdle /\ TmIdle
              /\ RsIdle
              /\ MiIdle
              /\ CrIdle
              /\ StIdle
              /\ QmIdle
              /\ FrIdle
CjSpec == CjInit /\ [][CjNext]_vars

RsInit == RsStart /\ IouIdle /\ KpiIdle /\ GateIdle /\ DlIdle /\ TfIdle /\
              PpIdle /\ DedupIdle /\ AlignIdle /\ CvIdle /\ BdIdle /\ TmIdle
              /\ CjIdle
              /\ MiIdle
              /\ CrIdle
              /\ StIdle
              /\ QmIdle
              /\ FrIdle
RsSpec == RsInit /\ [][RsNext]_vars

MiInit == MiStart /\ IouIdle /\ KpiIdle /\ GateIdle /\ DlIdle /\ TfIdle /\
              PpIdle /\ DedupIdle /\ AlignIdle /\ CvIdle /\ BdIdle /\ TmIdle
              /\ CjIdle /\ RsIdle
              /\ CrIdle
              /\ StIdle
              /\ QmIdle
              /\ FrIdle
MiSpec == MiInit /\ [][MiNext]_vars

CrInit == CrStart /\ IouIdle /\ KpiIdle /\ GateIdle /\ DlIdle /\ TfIdle /\
              PpIdle /\ DedupIdle /\ AlignIdle /\ CvIdle /\ BdIdle /\ TmIdle
              /\ CjIdle /\ RsIdle /\ MiIdle
              /\ StIdle
              /\ QmIdle
              /\ FrIdle
CrSpec == CrInit /\ [][CrNext]_vars

StInit == StStart /\ IouIdle /\ KpiIdle /\ GateIdle /\ DlIdle /\ TfIdle /\
              PpIdle /\ DedupIdle /\ AlignIdle /\ CvIdle /\ BdIdle /\ TmIdle
              /\ CjIdle /\ RsIdle /\ MiIdle /\ CrIdle
              /\ QmIdle
              /\ FrIdle
StSpec == StInit /\ [][StNext]_vars

QmInit == QmStart /\ IouIdle /\ KpiIdle /\ GateIdle /\ DlIdle /\ TfIdle /\
              PpIdle /\ DedupIdle /\ AlignIdle /\ CvIdle /\ BdIdle /\ TmIdle
              /\ CjIdle /\ RsIdle /\ MiIdle /\ CrIdle /\ StIdle
              /\ FrIdle
QmSpec == QmInit /\ [][QmNext]_vars

FrInit == FrStart /\ IouIdle /\ KpiIdle /\ GateIdle /\ DlIdle /\ TfIdle /\
              PpIdle /\ DedupIdle /\ AlignIdle /\ CvIdle /\ BdIdle /\ TmIdle
              /\ CjIdle /\ RsIdle /\ MiIdle /\ CrIdle /\ StIdle /\ QmIdle
FrSpec == FrInit /\ [][FrNext]_vars

====
